---- MODULE Spec2Model ----
(***************************************************************************)
(* RusTMP: RTMP ingest endpoint.  Model of the chunk-stream reassembler    *)
(* (src/rtmp/chunk.rs), the message handler (src/rtmp/message.rs) and the  *)
(* per-connection event loop (src/connection.rs), with the AMF0 codec      *)
(* (src/rtmp/amf0.rs) and the video analyzer (src/flv/video.rs).           *)
(*                                                                         *)
(* Bytes are the integers 0..255.  A u32 is kept as two 16-bit halves      *)
(* [hi, lo] so that 32-bit wrapping arithmetic stays exact.                *)
(***************************************************************************)
EXTENDS Integers, Sequences, FiniteSets, TLC

VARIABLES
    wire,            \* bytes the peer has sent that the socket has not yet delivered
    script,          \* the peer's plan: the messages it serialised into wire
    buf,             \* ChunkReader.buf
    states,          \* ChunkReader.states : cs_id -> ChunkStreamState
    max_chunk_size,  \* ChunkReader.max_chunk_size
    pc,              \* position of the task that drives the reader
    emitted,         \* every RtmpMessage returned by read_messages so far, in order
    nreads,          \* number of socket reads delivered so far
    lastTry,         \* the latest try_read_chunk call that returned None: where it
                     \* returned, and the reader it was called on
    app_name,        \* MessageHandler.app_name
    stream_key,      \* MessageHandler.stream_key
    window_ack_size, \* MessageHandler.window_ack_size
    bytes_received,  \* MessageHandler.bytes_received
    last_ack_sent,   \* MessageHandler.last_ack_sent
    acks,            \* every acknowledgement track_bytes has returned, in order
    tracked,         \* the counts track_bytes has been called with, in order
    windowSet,       \* a Window Ack Size message of the peer has been handled
    read_buf,        \* handle_connection: &buf[..n] while the acknowledgement is written
    ack_data,        \* handle_connection: the acknowledgement being written
    batch,           \* handle_connection: what `for msg in messages` has still to visit
    responses,       \* handle_connection: result.responses not yet written
    event,           \* handle_connection: result.event of the message being handled
    publishing,      \* handle_connection: publishing
    log,             \* the reads, handle calls and socket writes of the task, in order
    parsed,          \* for every chunk consumed: the chunk size used, the one announced
    announced,       \* the chunk size of the last Set Chunk Size message reassembled
    rendered,        \* number of dashboard renders
    handled,         \* for every message whose "Handle events" step has run: the
                     \* kind of the event handled, "None" when there was none
    video_analyzer,  \* handle_connection: video_analyzer (VideoAnalyzer)
    audio_analyzer,  \* handle_connection: audio_analyzer (AudioAnalyzer)
    stats,           \* handle_connection: stats (StreamStats)
    diagnostics,     \* handle_connection: diagnostics (StreamDiagnostics)
    encoder_name,    \* handle_connection: encoder_name
    clock,           \* what Instant::now() returned last, in milliseconds
    handshake,       \* perform_handshake: the filled part of c0c1, the response
                     \* written, the filled part of buf, and what it returned
    input,           \* the latest call of the function under study: its number n,
                     \* the state it was made on and its arguments
    output           \* what that call returned

chunkVars == <<wire, script, buf, states, max_chunk_size, pc, emitted, nreads, lastTry>>

handlerVars == <<app_name, stream_key, window_ack_size, bytes_received, last_ack_sent>>

ackVars == <<acks, tracked, windowSet>>

connVars ==
    <<read_buf, ack_data, batch, responses, event, publishing, log, parsed, announced,
      rendered, handled, video_analyzer>>

callVars == <<input, output>>

monitorVars == <<audio_analyzer, stats, diagnostics, encoder_name, clock, handshake>>

vars == <<chunkVars, handlerVars, ackVars, connVars, callVars, monitorVars>>

----------------------------------------------------------------------------
(* Bounds of the model *)

MaxMsgs == 2          \* messages in the peer's script

MaxReads == 3         \* socket reads that deliver the peer's bytes

MaxCalls == 4         \* calls of track_bytes

MaxConnMsgs == 2      \* messages the peer sends on a connection

MaxConnReads == 2     \* socket reads of the connection task

MaxTicks == 1         \* dashboard renders

----------------------------------------------------------------------------
(* Sequences and integers *)

Min(a, b) == IF a <= b THEN a ELSE b

SatSub(a, b) == IF a >= b THEN a - b ELSE 0

Take(s, n) == SubSeq(s, 1, Min(n, Len(s)))

Drop(s, n) == SubSeq(s, n + 1, Len(s))

Last(s) == s[Len(s)]

----------------------------------------------------------------------------
(* u32 as 16-bit halves *)

U32(h, l) == [hi |-> h, lo |-> l]

U32Zero == U32(0, 0)

\* u32::from_be_bytes
U32FromBE(b0, b1, b2, b3) == U32(b0 * 256 + b1, b2 * 256 + b3)

\* u32::from_le_bytes
U32FromLE(b0, b1, b2, b3) == U32(b3 * 256 + b2, b1 * 256 + b0)

\* u32::to_be_bytes
U32ToBE(u) == <<u.hi \div 256, u.hi % 256, u.lo \div 256, u.lo % 256>>

\* u32::to_le_bytes
U32ToLE(u) == <<u.lo % 256, u.lo \div 256, u.hi % 256, u.hi \div 256>>

\* (b0 << 16) | (b1 << 8) | b2
U24FromBE(b0, b1, b2) == U32(b0, b1 * 256 + b2)

\* u32::wrapping_add
WrappingAdd(a, b) ==
    LET l == a.lo + b.lo
    IN  U32((a.hi + b.hi + (l \div 65536)) % 65536, l % 65536)

\* the literal 0xFFFFFF
ExtMarker == U32(255, 65535)

U32Ge(a, b) == a.hi > b.hi \/ (a.hi = b.hi /\ a.lo >= b.lo)

\* (n as u32).to_be_bytes() of an unsigned integer of any width
U32BytesOfNat(n) ==
    <<(n \div 16777216) % 256, (n \div 65536) % 256, (n \div 256) % 256, n % 256>>

\* u32::from_be_bytes of a payload's first four bytes, as an integer; exact
\* below 2^31
NatOfBE(p) == ((p[1] * 256 + p[2]) * 256 + p[3]) * 256 + p[4]


----------------------------------------------------------------------------
(* ChunkReader (src/rtmp/chunk.rs) *)

\* 0-based indexing as in the source: self.buf[i]
At(b, i) == b[i + 1]

ChunkStreamStateDefault ==
    [timestamp |-> U32Zero, timestamp_delta |-> U32Zero, message_length |-> 0,
     type_id |-> 0, stream_id |-> U32Zero, buffer |-> <<>>]

DefaultChunkSize == 128

\* ChunkReader::new: no chunk stream known
NoStates == [c \in {} |-> ChunkStreamStateDefault]

NoTry == [stage |-> "new", pre |-> [buf |-> <<>>, states |-> NoStates]]

Fmt(first_byte) == (first_byte \div 64) % 4

CsIdLow(first_byte) == first_byte % 64

\* Basic header (1-3 bytes) of the chunk at the front of b; Len(b) > 0.
\* ok = FALSE is the early `return None`.
BasicHeader(b) ==
    LET low == CsIdLow(At(b, 0))
    IN  IF low = 0
        THEN IF 1 >= Len(b)
             THEN [ok |-> FALSE, cs_id |-> 0, pos |-> 1]
             ELSE [ok |-> TRUE, cs_id |-> At(b, 1) + 64, pos |-> 2]
        ELSE IF low = 1
        THEN IF 1 + 1 >= Len(b)
             THEN [ok |-> FALSE, cs_id |-> 0, pos |-> 1]
             ELSE [ok |-> TRUE, cs_id |-> At(b, 1) + At(b, 2) * 256 + 64, pos |-> 3]
        ELSE [ok |-> TRUE, cs_id |-> low, pos |-> 1]

HeaderSize(fmt) ==
    CASE fmt = 0 -> 11
      [] fmt = 1 -> 7
      [] fmt = 2 -> 3
      [] fmt = 3 -> 0

\* self.states.entry(cs_id).or_default()
EntryOrDefault(sts, cs_id) ==
    IF cs_id \in DOMAIN sts THEN sts ELSE sts @@ (cs_id :> ChunkStreamStateDefault)

\* Message header: the state with the header fields stored, the timestamp
\* field read, and the position after the header.
ReadMessageHeader(b, pos, fmt, st) ==
    LET field == U24FromBE(At(b, pos), At(b, pos + 1), At(b, pos + 2))
        mlen  == At(b, pos + 3) * 65536 + At(b, pos + 4) * 256 + At(b, pos + 5)
    IN  CASE fmt = 0 ->
               [st |-> [st EXCEPT !.message_length = mlen,
                                  !.type_id = At(b, pos + 6),
                                  !.stream_id = U32FromLE(At(b, pos + 7), At(b, pos + 8),
                                                          At(b, pos + 9), At(b, pos + 10))],
                timestamp_field |-> field, pos |-> pos + 11]
          [] fmt = 1 ->
               [st |-> [st EXCEPT !.message_length = mlen, !.type_id = At(b, pos + 6)],
                timestamp_field |-> field, pos |-> pos + 7]
          [] fmt = 2 ->
               [st |-> st, timestamp_field |-> field, pos |-> pos + 3]
          [] fmt = 3 ->
               [st |-> st, timestamp_field |-> st.timestamp_delta, pos |-> pos]

\* has_extended: both branches of the source test the same thing
HasExtended(fmt, timestamp_field) == timestamp_field = ExtMarker

\* "Update timestamp"
UpdateTimestamp(fmt, st, timestamp_field) ==
    CASE fmt = 0 ->
           [st EXCEPT !.timestamp = timestamp_field, !.timestamp_delta = U32Zero]
      [] fmt \in {1, 2} ->
           [st EXCEPT !.timestamp_delta = timestamp_field,
                      !.timestamp = WrappingAdd(st.timestamp, timestamp_field)]
      [] fmt = 3 ->
           [st EXCEPT !.timestamp = WrappingAdd(st.timestamp, st.timestamp_delta)]

\* (mutant) the rest of the message, whatever the chunk size
ChunkDataSizeUnchunked(st, mcs) ==
    SatSub(st.message_length, Len(st.buffer))

ChunkDataSize(st, mcs) ==
    Min(SatSub(st.message_length, Len(st.buffer)), mcs)

MessageComplete(st) == Len(st.buffer) >= st.message_length

RtmpMessage(st) ==
    [timestamp |-> st.timestamp, type_id |-> st.type_id,
     stream_id |-> st.stream_id, payload |-> st.buffer]

\* A `return None`: the input buffer is kept, the state map is whatever it is
\* at that point of the function.
TryNone(b, sts, where) ==
    [some |-> FALSE, msg |-> <<>>, buf |-> b, states |-> sts, stage |-> where]

\* try_read_chunk, in the order of the source: each operator below is the
\* function from one of its sections on, given what the sections before it
\* have computed.  some = FALSE is None; otherwise msg holds the completed
\* message, if any.

\* "Check if message is complete", the chunk's bytes drained from the buffer
TryComplete(b2, sts1, cs, st4) ==
    IF MessageComplete(st4)
    THEN [some |-> TRUE, msg |-> <<RtmpMessage(st4)>>, buf |-> b2,
          states |-> [sts1 EXCEPT ![cs] = [st4 EXCEPT !.buffer = <<>>]],
          stage |-> "message"]
    ELSE [some |-> TRUE, msg |-> <<>>, buf |-> b2,
          states |-> [sts1 EXCEPT ![cs] = st4], stage |-> "chunk"]

\* "Chunk Data": st3 is the state with header and timestamp stored
TryChunkData(b, sts1, cs, st3, pos2, size) ==
    IF pos2 + size > Len(b)
    THEN TryNone(b, [sts1 EXCEPT ![cs] = st3], "payload")
    ELSE TryComplete(Drop(b, pos2 + size), sts1, cs,
                     [st3 EXCEPT !.buffer = @ \o SubSeq(b, pos2 + 1, pos2 + size)])

\* "Update timestamp" with the timestamp field finally read
TryTimestamp(b, sts1, mcs, fmt, cs, st, timestamp_field, pos2) ==
    TryChunkData(b, sts1, cs, UpdateTimestamp(fmt, st, timestamp_field), pos2,
                 ChunkDataSize(UpdateTimestamp(fmt, st, timestamp_field), mcs))

\* "Extended Timestamp": hd is the message header as read
TryExtendedTimestamp(b, sts1, mcs, fmt, cs, hd) ==
    IF HasExtended(fmt, hd.timestamp_field)
    THEN IF hd.pos + 4 > Len(b)
         THEN TryNone(b, [sts1 EXCEPT ![cs] = hd.st], "ext")
         ELSE TryTimestamp(b, sts1, mcs, fmt, cs, hd.st,
                           U32FromBE(At(b, hd.pos), At(b, hd.pos + 1),
                                     At(b, hd.pos + 2), At(b, hd.pos + 3)),
                           hd.pos + 4)
    ELSE TryTimestamp(b, sts1, mcs, fmt, cs, hd.st, hd.timestamp_field, hd.pos)

\* "Message Header": bh is the basic header as read
TryMessageHeader(b, sts, mcs, fmt, bh) ==
    IF ~bh.ok THEN TryNone(b, sts, "basic")
    ELSE IF bh.pos + HeaderSize(fmt) > Len(b) THEN TryNone(b, sts, "header")
    ELSE TryExtendedTimestamp(b, EntryOrDefault(sts, bh.cs_id), mcs, fmt, bh.cs_id,
             ReadMessageHeader(b, bh.pos, fmt, EntryOrDefault(sts, bh.cs_id)[bh.cs_id]))

TryReadChunk(b, sts, mcs) ==
    IF 0 >= Len(b) THEN TryNone(b, sts, "empty")
    ELSE TryMessageHeader(b, sts, mcs, Fmt(At(b, 0)), BasicHeader(b))

\* read_messages: call try_read_chunk until it returns None.  `stage` and
\* `pre` describe that last call: where it returned and what it was called on.
RECURSIVE ReadMessages(_, _, _)
RECURSIVE ReadMessagesAfter(_, _, _, _)

\* the loop of read_messages after a try_read_chunk call that returned r
ReadMessagesAfter(b, sts, mcs, r) ==
    IF ~r.some
    THEN [messages |-> <<>>, buf |-> r.buf, states |-> r.states,
          stage |-> r.stage, pre |-> [buf |-> b, states |-> sts]]
    ELSE [ReadMessages(r.buf, r.states, mcs) EXCEPT !.messages = r.msg \o @]

ReadMessages(b, sts, mcs) ==
    ReadMessagesAfter(b, sts, mcs, TryReadChunk(b, sts, mcs))

----------------------------------------------------------------------------
(* ChunkWriter (src/rtmp/chunk.rs): header serialisation *)

write_basic_header(fmt, cs_id) ==
    IF cs_id >= 2 /\ cs_id <= 63
    THEN <<fmt * 64 + cs_id>>
    ELSE IF cs_id >= 64 /\ cs_id <= 319
    THEN <<fmt * 64, (cs_id - 64) % 256>>
    ELSE <<fmt * 64 + 1, (cs_id - 64) % 256, ((cs_id - 64) \div 256) % 256>>

\* the 3-byte timestamp slot
TimestampSlot(timestamp) ==
    IF U32Ge(timestamp, ExtMarker)
    THEN <<255, 255, 255>>
    ELSE <<timestamp.hi % 256, timestamp.lo \div 256, timestamp.lo % 256>>

\* (mutant) no extended timestamp for the marker value itself
ExtendedSlotAbove(timestamp) ==
    IF U32Ge(timestamp, ExtMarker) /\ timestamp # ExtMarker THEN U32ToBE(timestamp) ELSE <<>>

\* the 4-byte extended timestamp, when needed
ExtendedSlot(timestamp) ==
    IF U32Ge(timestamp, ExtMarker) THEN U32ToBE(timestamp) ELSE <<>>

\* 3 bytes, big-endian
LengthSlot(msg_length) ==
    <<(msg_length \div 65536) % 256, (msg_length \div 256) % 256, msg_length % 256>>

write_fmt0_header(timestamp, msg_length, type_id, stream_id) ==
    TimestampSlot(timestamp) \o LengthSlot(msg_length) \o <<type_id>>
        \o U32ToLE(stream_id) \o ExtendedSlot(timestamp)


WriterChunkSize == 4096

\* the chunks of write_message after the first: fmt 3, the extended timestamp
\* repeated, up to chunk_size payload bytes
RECURSIVE WriteContinuations(_, _, _)
WriteContinuations(cs_id, timestamp, rest) ==
    IF rest = <<>> THEN <<>>
    ELSE write_basic_header(3, cs_id) \o ExtendedSlot(timestamp)
           \o Take(rest, WriterChunkSize)
           \o WriteContinuations(cs_id, timestamp, Drop(rest, WriterChunkSize))

write_message(cs_id, timestamp, type_id, stream_id, payload) ==
    write_basic_header(0, cs_id)
        \o write_fmt0_header(timestamp, Len(payload), type_id, stream_id)
        \o Take(payload, WriterChunkSize)
        \o WriteContinuations(cs_id, timestamp, Drop(payload, WriterChunkSize))

----------------------------------------------------------------------------
(* The publishing peer: the bytes it puts on the wire for a script of       *)
(* messages, in the chunk format try_read_chunk parses.  A message is a     *)
(* first chunk of format fmt followed by fmt-3 continuation chunks of the   *)
(* peer's chunk size.                                                       *)

TsSmall == U32(0, 5)

TsExtended == U32(256, 7)

\* message header of the first chunk, extended timestamp included
PeerHeader(m) ==
    CASE m.fmt = 0 -> write_fmt0_header(m.ts, m.len, m.type_id, m.stream_id)
      [] m.fmt = 1 -> TimestampSlot(m.ts) \o LengthSlot(m.len) \o <<m.type_id>>
                          \o ExtendedSlot(m.ts)
      [] m.fmt = 2 -> TimestampSlot(m.ts) \o ExtendedSlot(m.ts)
      [] m.fmt = 3 -> <<>>

\* payload bytes of the k-th message of a script: all different
PeerPayload(k, len) == [i \in 1..len |-> 16 * k + i]

RECURSIVE PeerContinuations(_, _, _)
PeerContinuations(m, rest, c) ==
    IF rest = <<>> THEN <<>>
    ELSE write_basic_header(3, m.cs)
           \o (IF m.extCont THEN ExtendedSlot(m.ts) ELSE <<>>)
           \o Take(rest, c)
           \o PeerContinuations(m, Drop(rest, c), c)

PeerMessage(m, payload, c) ==
    write_basic_header(m.fmt, m.cs) \o PeerHeader(m) \o Take(payload, c)
        \o PeerContinuations(m, Drop(payload, c), c)

\* the length of the k-th message: fmt 2 and 3 reuse the previous length
RECURSIVE EffLen(_, _)
EffLen(sc, k) ==
    IF k = 0 THEN 0
    ELSE IF sc[k].fmt \in {0, 1} THEN sc[k].len ELSE EffLen(sc, k - 1)

RECURSIVE PeerBytesFrom(_, _, _)
PeerBytesFrom(sc, k, c) ==
    IF k > Len(sc) THEN <<>>
    ELSE PeerMessage(sc[k], PeerPayload(k, EffLen(sc, k)), c)
           \o PeerBytesFrom(sc, k + 1, c)

PeerBytes(sc, c) == PeerBytesFrom(sc, 1, c)

\* the chunk stream the peer sends on and the chunk size it uses: the one-,
\* two- and three-byte forms of the basic header, several chunks per message
\* with the first
PeerSetups ==
    { [cs |-> 3, chunk |-> 2],
      [cs |-> 64, chunk |-> DefaultChunkSize],
      [cs |-> 320, chunk |-> DefaultChunkSize] }

PeerTypeId == 9

PeerStreamId == U32(0, 1)

PeerMsg(fmt, cs, ts, len, extCont) ==
    [fmt |-> fmt, cs |-> cs, ts |-> ts, len |-> len, type_id |-> PeerTypeId,
     stream_id |-> PeerStreamId, extCont |-> extCont]

\* what one message of a script may be: one or several chunks long, with a
\* 3-byte or an extended timestamp, the extended timestamp repeated in the
\* continuation chunks (extCont) or not
PeerMsgs(cs) ==
    { PeerMsg(0, cs, TsSmall, 1, FALSE),   PeerMsg(0, cs, TsSmall, 5, FALSE),
      PeerMsg(0, cs, TsExtended, 5, FALSE), PeerMsg(0, cs, TsExtended, 5, TRUE),
      PeerMsg(1, cs, TsSmall, 5, FALSE),
      PeerMsg(1, cs, TsExtended, 5, TRUE),
      PeerMsg(2, cs, TsSmall, 0, FALSE),   PeerMsg(2, cs, TsExtended, 0, TRUE),
      PeerMsg(3, cs, U32Zero, 0, FALSE) }

\* scripts on one chunk stream; the first message carries a full header
RECURSIVE PeerScriptsOfLen(_, _)
PeerScriptsOfLen(cs, n) ==
    IF n = 1 THEN {<<m>> : m \in {x \in PeerMsgs(cs) : x.fmt = 0}}
    ELSE {Append(sc, m) : sc \in PeerScriptsOfLen(cs, n - 1), m \in PeerMsgs(cs)}

PeerScripts(cs) == UNION {PeerScriptsOfLen(cs, n) : n \in 1..MaxMsgs}

----------------------------------------------------------------------------
(* AMF0 (src/rtmp/amf0.rs).  A String is its UTF-8 bytes, a Number is the   *)
(* 8 big-endian bytes of the f64.  Every value is [t, v] with v a sequence. *)

\* enum Amf0Value: t is the variant, v what it holds (one byte 0 or 1 for a
\* Boolean, nothing for Null and Undefined)
Amf0(t, v) == [t |-> t, v |-> v]

\* Option: None is <<>>, Some(x) is <<x>>
as_str(val) == IF val.t = "String" THEN <<val.v>> ELSE <<>>

as_f64(val) == IF val.t = "Number" THEN <<val.v>> ELSE <<>>

as_object(val) == IF val.t \in {"Object", "EcmaArray"} THEN <<val.v>> ELSE <<>>

\* pairs.iter().find(|(k, _)| k == key).map(|(_, v)| v)
RECURSIVE FindProperty(_, _)
FindProperty(pairs, key) ==
    IF pairs = <<>> THEN <<>>
    ELSE IF Head(pairs)[1] = key THEN <<Head(pairs)[2]>>
    ELSE FindProperty(Tail(pairs), key)

get_property(val, key) ==
    IF as_object(val) = <<>> THEN <<>> ELSE FindProperty(as_object(val)[1], key)

\* String::from_utf8_lossy: ASCII and well-formed two-byte sequences are kept,
\* a byte that can start or continue nothing becomes U+FFFD (EF BF BD).
\* Exact for byte strings without lead bytes E0..F4.
RECURSIVE Utf8Lossy(_)
Utf8Lossy(s) ==
    IF \A i \in 1..Len(s) : s[i] < 128 THEN s
    ELSE IF s[1] < 128 THEN <<s[1]>> \o Utf8Lossy(Tail(s))
    ELSE IF s[1] >= 194 /\ s[1] <= 223 /\ Len(s) >= 2 /\ s[2] >= 128 /\ s[2] <= 191
    THEN <<s[1], s[2]>> \o Utf8Lossy(Tail(Tail(s)))
    ELSE <<239, 191, 189>> \o Utf8Lossy(Tail(s))

\* a decoder call: Some(val) or None, and self.pos afterwards
DecSome(val, pos) == [ok |-> TRUE, val |-> <<val>>, pos |-> pos]

DecNone(pos) == [ok |-> FALSE, val |-> <<>>, pos |-> pos]

read_number(d, pos) ==
    IF pos + 8 > Len(d) THEN DecNone(pos)
    ELSE DecSome(Amf0("Number", SubSeq(d, pos + 1, pos + 8)), pos + 8)

read_boolean(d, pos) ==
    IF pos >= Len(d) THEN DecNone(pos)
    ELSE DecSome(Amf0("Boolean", <<IF At(d, pos) # 0 THEN 1 ELSE 0>>), pos + 1)

\* Some(String) is val = <<bytes>>
read_utf8(d, pos) ==
    IF pos + 2 > Len(d) THEN DecNone(pos)
    ELSE LET len == At(d, pos) * 256 + At(d, pos + 1)
         IN  IF pos + 2 + len > Len(d) THEN DecNone(pos + 2)
             ELSE DecSome(Utf8Lossy(SubSeq(d, pos + 3, pos + 2 + len)), pos + 2 + len)

read_string(d, pos) ==
    LET r == read_utf8(d, pos)
    IN  IF r.ok THEN DecSome(Amf0("String", r.val[1]), r.pos) ELSE r

\* a u32 length or count as usize, saturated at 2^31 - 1, which is more than
\* any payload holds
CountOf(d, pos) ==
    IF At(d, pos) >= 128 THEN 2147483647
    ELSE ((At(d, pos) * 256 + At(d, pos + 1)) * 256 + At(d, pos + 2)) * 256 + At(d, pos + 3)

read_long_string(d, pos) ==
    IF pos + 4 > Len(d) THEN DecNone(pos)
    ELSE LET len == CountOf(d, pos)
         IN  IF len > Len(d) \/ pos + 4 + len > Len(d) THEN DecNone(pos + 4)
             ELSE DecSome(Amf0("String", Utf8Lossy(SubSeq(d, pos + 5, pos + 4 + len))),
                          pos + 4 + len)

\* (mutant) the end marker is taken to be the two zero bytes
IsObjectEndShort(d, pos) ==
    /\ pos + 2 <= Len(d)
    /\ At(d, pos) = 0
    /\ At(d, pos + 1) = 0

IsObjectEnd(d, pos) ==
    /\ pos + 3 <= Len(d)
    /\ At(d, pos) = 0
    /\ At(d, pos + 1) = 0
    /\ At(d, pos + 2) = 9

RECURSIVE decode(_, _)
RECURSIVE read_object_properties(_, _, _)
RECURSIVE read_strict_items(_, _, _, _)

\* the loop of read_object_properties; val = <<pairs>>
read_object_properties(d, pos, pairs) ==
    IF IsObjectEnd(d, pos) THEN DecSome(pairs, pos + 3)
    ELSE LET key == read_utf8(d, pos)
         IN  IF ~key.ok THEN DecNone(key.pos)
             ELSE IF key.val[1] = <<>> /\ key.pos < Len(d) /\ At(d, key.pos) = 9
             THEN DecSome(pairs, key.pos + 1)
             ELSE LET value == decode(d, key.pos)
                  IN  IF ~value.ok THEN DecNone(value.pos)
                      ELSE read_object_properties(d, value.pos,
                               Append(pairs, <<key.val[1], value.val[1]>>))

read_object(d, pos) ==
    LET r == read_object_properties(d, pos, <<>>)
    IN  IF r.ok THEN DecSome(Amf0("Object", r.val[1]), r.pos) ELSE r

\* (mutant) a count of 0 is believed: the array is empty and its body is not read
read_ecma_array_counted(d, pos) ==
    IF pos + 4 > Len(d) THEN DecNone(pos)
    ELSE IF CountOf(d, pos) = 0 THEN DecSome(Amf0("EcmaArray", <<>>), pos + 4)
    ELSE LET r == read_object_properties(d, pos + 4, <<>>)
         IN  IF r.ok THEN DecSome(Amf0("EcmaArray", r.val[1]), r.pos) ELSE r

read_ecma_array(d, pos) ==
    IF pos + 4 > Len(d) THEN DecNone(pos)
    ELSE LET r == read_object_properties(d, pos + 4, <<>>)
         IN  IF r.ok THEN DecSome(Amf0("EcmaArray", r.val[1]), r.pos) ELSE r

\* the loop of read_strict_array: a failed decode ends it, the items so far
\* are kept and self.pos stays where the failed decode left it
read_strict_items(d, pos, count, items) ==
    IF count = 0 THEN DecSome(Amf0("StrictArray", items), pos)
    ELSE LET r == decode(d, pos)
         IN  IF ~r.ok THEN DecSome(Amf0("StrictArray", items), r.pos)
             ELSE read_strict_items(d, r.pos, count - 1, Append(items, r.val[1]))

read_strict_array(d, pos) ==
    IF pos + 4 > Len(d) THEN DecNone(pos)
    ELSE read_strict_items(d, pos + 4, CountOf(d, pos), <<>>)

decode(d, pos) ==
    IF pos >= Len(d) THEN DecNone(pos)
    ELSE LET marker == At(d, pos)
         IN  CASE marker = 0 -> read_number(d, pos + 1)
               [] marker = 1 -> read_boolean(d, pos + 1)
               [] marker = 2 -> read_string(d, pos + 1)
               [] marker = 3 -> read_object(d, pos + 1)
               [] marker = 5 -> DecSome(Amf0("Null", <<>>), pos + 1)
               [] marker = 6 -> DecSome(Amf0("Undefined", <<>>), pos + 1)
               [] marker = 8 -> read_ecma_array(d, pos + 1)
               [] marker = 10 -> read_strict_array(d, pos + 1)
               [] marker = 12 -> read_long_string(d, pos + 1)
               [] OTHER -> DecNone(pos + 1)

RECURSIVE DecodeFrom(_, _)
DecodeFrom(d, pos) ==
    LET r == decode(d, pos)
    IN  IF r.ok THEN r.val \o DecodeFrom(d, r.pos) ELSE <<>>

\* Amf0Decoder::new(data).decode_all()
decode_all(d) == DecodeFrom(d, 0)

\* Amf0Encoder: each write_* is the bytes it appends
write_number(val) == <<0>> \o val

write_boolean(val) == <<1, IF val THEN 1 ELSE 0>>

write_utf8(val) ==
    LET len == Min(Len(val), 65535)
    IN  <<len \div 256, len % 256>> \o Take(val, len)

write_string(val) == <<2>> \o write_utf8(val)

write_null == <<5>>

RECURSIVE write_value(_)
RECURSIVE write_pairs(_)
RECURSIVE write_items(_)

write_pairs(pairs) ==
    IF pairs = <<>> THEN <<>>
    ELSE write_utf8(Head(pairs)[1]) \o write_value(Head(pairs)[2])
           \o write_pairs(Tail(pairs))

write_items(items) ==
    IF items = <<>> THEN <<>>
    ELSE write_value(Head(items)) \o write_items(Tail(items))

write_object(pairs) == <<3>> \o write_pairs(pairs) \o <<0, 0, 9>>

write_value(val) ==
    CASE val.t = "Number" -> write_number(val.v)
      [] val.t = "Boolean" -> write_boolean(val.v[1] = 1)
      [] val.t = "String" -> write_string(val.v)
      [] val.t \in {"Null", "Undefined"} -> write_null
      [] val.t \in {"Object", "EcmaArray"} -> write_object(val.v)
      [] val.t = "StrictArray" ->
           <<10>> \o U32BytesOfNat(Len(val.v)) \o write_items(val.v)

----------------------------------------------------------------------------
(* MessageHandler (src/rtmp/message.rs) *)

DefaultWindowAckSize == 2500000

\* MessageHandler::new
HandlerNew ==
    /\ app_name = <<>>
    /\ stream_key = <<>>
    /\ window_ack_size = DefaultWindowAckSize
    /\ bytes_received = 0
    /\ last_ack_sent = 0

\* (mutant) the window must be exceeded, not reached
AckDueStrict(window, received, last_ack) ==
    window > 0 /\ received - last_ack > window

\* the test of track_bytes, on the byte count already increased
AckDue(window, received, last_ack) ==
    window > 0 /\ received - last_ack >= window

\* the acknowledgement track_bytes serialises
AckMessage(received) == write_message(2, U32Zero, 3, U32Zero, U32BytesOfNat(received))

\* handle_window_ack_size: the new window_ack_size
WindowAckSizeOf(window, payload) ==
    IF Len(payload) >= 4 THEN NatOfBE(payload) ELSE window

----------------------------------------------------------------------------
(* MessageHandler::handle (src/rtmp/message.rs).  The handler is the record *)
(* of its fields; a HandleResult carries the handler as handle leaves it.   *)

\* the string literals of the handler, and those the peer sends, as UTF-8
\* bytes; each field is the literal of its name, except
\*   checkbw "_checkbw", result "_result", error "_error",
\*   setDataFrame "@setDataFrame", FMS "FMS/3,5,7,7009",
\*   ConnectSuccess "NetConnection.Connect.Success",
\*   ConnectionSucceeded "Connection succeeded.",
\*   PublishStart "NetStream.Publish.Start",
\*   PublishingStarted "Publishing started."
Str ==
    [ connect |-> <<99, 111, 110, 110, 101, 99, 116>>,
      releaseStream |->
         <<114, 101, 108, 101, 97, 115, 101, 83, 116, 114, 101, 97, 109>>,
      FCPublish |-> <<70, 67, 80, 117, 98, 108, 105, 115, 104>>,
      createStream |-> <<99, 114, 101, 97, 116, 101, 83, 116, 114, 101, 97, 109>>,
      publish |-> <<112, 117, 98, 108, 105, 115, 104>>,
      FCUnpublish |-> <<70, 67, 85, 110, 112, 117, 98, 108, 105, 115, 104>>,
      deleteStream |-> <<100, 101, 108, 101, 116, 101, 83, 116, 114, 101, 97, 109>>,
      checkbw |-> <<95, 99, 104, 101, 99, 107, 98, 119>>,
      result |-> <<95, 114, 101, 115, 117, 108, 116>>,
      error |-> <<95, 101, 114, 114, 111, 114>>,
      onStatus |-> <<111, 110, 83, 116, 97, 116, 117, 115>>,
      setDataFrame |->
         <<64, 115, 101, 116, 68, 97, 116, 97, 70, 114, 97, 109, 101>>,
      onMetaData |-> <<111, 110, 77, 101, 116, 97, 68, 97, 116, 97>>,
      app |-> <<97, 112, 112>>,
      onFCPublish |-> <<111, 110, 70, 67, 80, 117, 98, 108, 105, 115, 104>>,
      fmsVer |-> <<102, 109, 115, 86, 101, 114>>,
      FMS |-> <<70, 77, 83, 47, 51, 44, 53, 44, 55, 44, 55, 48, 48, 57>>,
      capabilities |-> <<99, 97, 112, 97, 98, 105, 108, 105, 116, 105, 101, 115>>,
      mode |-> <<109, 111, 100, 101>>,
      level |-> <<108, 101, 118, 101, 108>>,
      status |-> <<115, 116, 97, 116, 117, 115>>,
      code |-> <<99, 111, 100, 101>>,
      ConnectSuccess |->
         <<78, 101, 116, 67, 111, 110, 110, 101, 99, 116, 105, 111, 110,
           46, 67, 111, 110, 110, 101, 99, 116, 46, 83, 117, 99, 99,
           101, 115, 115>>,
      description |-> <<100, 101, 115, 99, 114, 105, 112, 116, 105, 111, 110>>,
      ConnectionSucceeded |->
         <<67, 111, 110, 110, 101, 99, 116, 105, 111, 110, 32, 115, 117,
           99, 99, 101, 101, 100, 101, 100, 46>>,
      objectEncoding |->
         <<111, 98, 106, 101, 99, 116, 69, 110, 99, 111, 100, 105, 110, 103>>,
      PublishStart |->
         <<78, 101, 116, 83, 116, 114, 101, 97, 109, 46, 80, 117, 98,
           108, 105, 115, 104, 46, 83, 116, 97, 114, 116>>,
      PublishingStarted |->
         <<80, 117, 98, 108, 105, 115, 104, 105, 110, 103, 32, 115, 116,
           97, 114, 116, 101, 100, 46>>,
      live |-> <<108, 105, 118, 101>>,
      key |-> <<107, 101, 121>> ]

\* f64::to_be_bytes of 0.0, 1.0 and 31.0
F64 ==
    [ zero |-> <<0, 0, 0, 0, 0, 0, 0, 0>>,
      one |-> <<63, 240, 0, 0, 0, 0, 0, 0>>,
      thirty_one |-> <<64, 63, 0, 0, 0, 0, 0, 0>> ]

F64IsNaN(x) ==
    /\ x[1] % 128 = 127
    /\ x[2] >= 240
    /\ (x[2] % 16 # 0 \/ SubSeq(x, 3, 8) # SubSeq(F64.zero, 3, 8))

\* (mutant) x >= 0.0
F64NonNegative(x) ==
    /\ (x[1] < 128 \/ x = <<128, 0, 0, 0, 0, 0, 0, 0>>)
    /\ ~F64IsNaN(x)

\* x > 0.0
F64Positive(x) ==
    /\ x[1] < 128
    /\ x # F64.zero
    /\ ~F64IsNaN(x)

\* the fields of MessageHandler that handle reads and writes
HandlerState ==
    [app_name |-> app_name, stream_key |-> stream_key,
     window_ack_size |-> window_ack_size]

HandleResult(h, resps, new_chunk_size, evt) ==
    [handler |-> h, responses |-> resps, new_chunk_size |-> new_chunk_size,
     event |-> evt]

ResultEmpty(h) == HandleResult(h, <<>>, <<>>, <<>>)

ResultResponse(h, data) == HandleResult(h, <<data>>, <<>>, <<>>)

ResultEvent(h, evt) == HandleResult(h, <<>>, <<>>, <<evt>>)

\* (mutant) the index is taken as 1-based
GetOneBased(values, i) == IF i <= Len(values) /\ i >= 1 THEN <<values[i]>> ELSE <<>>

\* values.get(i) with the 0-based index of the source
Get(values, i) == IF i < Len(values) THEN <<values[i + 1]>> ELSE <<>>

handle_set_chunk_size(h, msg) ==
    IF Len(msg.payload) >= 4
    THEN HandleResult(h, <<>>, <<NatOfBE(msg.payload)>>, <<>>)
    ELSE ResultEmpty(h)

handle_user_control(h, msg) ==
    IF Len(msg.payload) >= 6
    THEN IF msg.payload[1] * 256 + msg.payload[2] = 6
         THEN ResultResponse(h, write_message(2, U32Zero, 4, U32Zero,
                                    <<0, 7>> \o SubSeq(msg.payload, 3, 6)))
         ELSE ResultEmpty(h)
    ELSE ResultEmpty(h)

handle_window_ack_size(h, msg) ==
    ResultEmpty([h EXCEPT !.window_ack_size = WindowAckSizeOf(@, msg.payload)])

handle_set_peer_bandwidth(h, msg) ==
    ResultResponse(h, write_message(2, U32Zero, 5, U32Zero,
                                    U32BytesOfNat(h.window_ack_size)))

\* the loop of handle_amf0_data from index i on
RECURSIVE MetadataFrom(_, _, _)
MetadataFrom(h, values, i) ==
    IF i >= Len(values) THEN ResultEmpty(h)
    ELSE LET name == as_str(values[i + 1])
             meta_idx == IF name = <<Str.setDataFrame>> THEN i + 2 ELSE i + 1
             meta_val == IF Get(values, meta_idx) # <<>> THEN Get(values, meta_idx)
                         ELSE Get(values, i + 1)
         IN  IF /\ name # <<>>
                /\ name[1] \in {Str.setDataFrame, Str.onMetaData}
                /\ meta_val # <<>>
                /\ as_object(meta_val[1]) # <<>>
             THEN ResultEvent(h, [kind |-> "Metadata",
                                  properties |-> as_object(meta_val[1])[1]])
             ELSE MetadataFrom(h, values, i + 1)

handle_amf0_data(h, msg) == MetadataFrom(h, decode_all(msg.payload), 0)

Result3(h, name, txn_id, tail) ==
    ResultResponse(h, write_message(3, U32Zero, 20, U32Zero,
                          write_string(name) \o write_number(txn_id) \o tail))

handle_connect(h, values, txn_id) ==
    LET app == IF Get(values, 2) = <<>> THEN <<>>
               ELSE get_property(Get(values, 2)[1], Str.app)
        h2  == IF app # <<>> /\ as_str(app[1]) # <<>>
               THEN [h EXCEPT !.app_name = as_str(app[1])[1]]
               ELSE h
        win == U32BytesOfNat(h2.window_ack_size)
        enc == write_string(Str.result) \o write_number(txn_id)
                 \o write_object(<< <<Str.fmsVer, Amf0("String", Str.FMS)>>,
                                    <<Str.capabilities, Amf0("Number", F64.thirty_one)>>,
                                    <<Str.mode, Amf0("Number", F64.one)>> >>)
                 \o write_object(<< <<Str.level, Amf0("String", Str.status)>>,
                                    <<Str.code, Amf0("String", Str.ConnectSuccess)>>,
                                    <<Str.description, Amf0("String", Str.ConnectionSucceeded)>>,
                                    <<Str.objectEncoding, Amf0("Number", F64.zero)>> >>)
    IN  HandleResult(h2,
            << write_message(2, U32Zero, 5, U32Zero, win),
               write_message(2, U32Zero, 6, U32Zero, win \o <<2>>),
               write_message(2, U32Zero, 1, U32Zero, U32BytesOfNat(4096)),
               write_message(2, U32Zero, 4, U32Zero, <<0, 0, 0, 0, 0, 0>>),
               write_message(3, U32Zero, 20, U32Zero, enc) >>,
            <<>>,
            <<[kind |-> "Connected", app_name |-> h2.app_name]>>)

handle_release_stream(h, txn_id) == Result3(h, Str.result, txn_id, write_null)

handle_fc_publish(h, txn_id) == Result3(h, Str.onFCPublish, F64.zero, write_null)

\* (mutant) the stream id returned is the transaction id
handle_create_stream_txn(h, txn_id) ==
    Result3(h, Str.result, txn_id, write_null \o write_number(txn_id))

handle_create_stream(h, txn_id) ==
    Result3(h, Str.result, txn_id, write_null \o write_number(F64.one))

handle_publish(h, values, txn_id, msg_stream_id) ==
    LET key == IF Get(values, 3) = <<>> THEN <<>> ELSE as_str(Get(values, 3)[1])
        h2  == IF key # <<>> THEN [h EXCEPT !.stream_key = key[1]] ELSE h
        enc == write_string(Str.onStatus) \o write_number(F64.zero) \o write_null
                 \o write_object(<< <<Str.level, Amf0("String", Str.status)>>,
                                    <<Str.code, Amf0("String", Str.PublishStart)>>,
                                    <<Str.description, Amf0("String", Str.PublishingStarted)>> >>)
    IN  HandleResult(h2,
            << write_message(2, U32Zero, 4, U32Zero, <<0, 0, 0, 0, 0, 1>>),
               write_message(3, U32Zero, 20, msg_stream_id, enc) >>,
            <<>>,
            <<[kind |-> "Publishing", app_name |-> h2.app_name,
               stream_key |-> h2.stream_key]>>)

handle_unknown_command(h, txn_id) ==
    IF F64Positive(txn_id)
    THEN Result3(h, Str.result, txn_id, write_null)
    ELSE ResultEmpty(h)

\* values.first().and_then(|v| v.as_str()).unwrap_or("")
CommandName(values) ==
    IF values = <<>> \/ as_str(values[1]) = <<>> THEN <<>> ELSE as_str(values[1])[1]

\* values.get(1).and_then(|v| v.as_f64()).unwrap_or(0.0)
TransactionId(values) ==
    IF Len(values) < 2 \/ as_f64(values[2]) = <<>> THEN F64.zero ELSE as_f64(values[2])[1]

\* match command_name.as_str()
DispatchCommand(h, msg, values, command_name, transaction_id) ==
    CASE command_name = Str.connect -> handle_connect(h, values, transaction_id)
      [] command_name = Str.releaseStream -> handle_release_stream(h, transaction_id)
      [] command_name = Str.FCPublish -> handle_fc_publish(h, transaction_id)
      [] command_name = Str.createStream -> handle_create_stream(h, transaction_id)
      [] command_name = Str.publish ->
           handle_publish(h, values, transaction_id, msg.stream_id)
      [] command_name \in {Str.FCUnpublish, Str.deleteStream} ->
           ResultEvent(h, [kind |-> "StreamEnded"])
      [] command_name \in {Str.checkbw, Str.result, Str.error, Str.onStatus} ->
           ResultEmpty(h)
      [] OTHER -> handle_unknown_command(h, transaction_id)

DecodedCommand(h, msg, values) ==
    DispatchCommand(h, msg, values, CommandName(values), TransactionId(values))

handle_amf0_command(h, msg) == DecodedCommand(h, msg, decode_all(msg.payload))

\* MessageHandler::handle
handle(h, msg) ==
    CASE msg.type_id = 1 -> handle_set_chunk_size(h, msg)
      [] msg.type_id = 3 -> ResultEmpty(h)
      [] msg.type_id = 4 -> handle_user_control(h, msg)
      [] msg.type_id = 5 -> handle_window_ack_size(h, msg)
      [] msg.type_id = 6 -> handle_set_peer_bandwidth(h, msg)
      [] msg.type_id = 8 ->
           ResultEvent(h, [kind |-> "AudioData", timestamp |-> msg.timestamp,
                           data |-> msg.payload])
      [] msg.type_id = 9 ->
           ResultEvent(h, [kind |-> "VideoData", timestamp |-> msg.timestamp,
                           data |-> msg.payload])
      [] msg.type_id = 18 -> handle_amf0_data(h, msg)
      [] msg.type_id = 20 -> handle_amf0_command(h, msg)
      [] OTHER -> ResultEmpty(h)

\* VideoAnalyzer::new
VideoAnalyzerNew ==
    [codec |-> <<>>, width |-> <<>>, height |-> <<>>, profile |-> <<>>, level |-> <<>>,
     avc_config_received |-> FALSE, nalu_length_size |-> 4,
     keyframe_count |-> 0, inter_frame_count |-> 0, b_frame_count |-> 0,
     total_video_frames |-> 0, total_video_bytes |-> 0]

\* the value of the function f of one argument: Let([x \in {e} |-> b]) is b
\* with the value of e, computed once, for x
Let(f) == CHOOSE y \in UNION {{g[x] : x \in DOMAIN g} : g \in {f}} : TRUE

\* VideoCodec::from_id
VideoCodecFromId(id) ==
    CASE id = 2 -> [kind |-> "H263", id |-> id]
      [] id = 3 -> [kind |-> "Screen", id |-> id]
      [] id = 4 -> [kind |-> "VP6", id |-> id]
      [] id = 5 -> [kind |-> "VP6Alpha", id |-> id]
      [] id = 6 -> [kind |-> "ScreenV2", id |-> id]
      [] id = 7 -> [kind |-> "Avc", id |-> id]
      [] OTHER -> [kind |-> "Unknown", id |-> id]

\* the frame type of process
FrameTypeFromId(id) ==
    CASE id = 1 -> "Keyframe"
      [] id = 2 -> "Inter"
      [] id = 3 -> "DisposableInter"
      [] id = 4 -> "GeneratedKeyframe"
      [] id = 5 -> "VideoInfo"
      [] OTHER -> "Unknown"

h264_profile_name(profile_idc) ==
    CASE profile_idc = 66 -> "Baseline"
      [] profile_idc = 77 -> "Main"
      [] profile_idc = 88 -> "Extended"
      [] profile_idc = 100 -> "High"
      [] profile_idc = 110 -> "High 10"
      [] profile_idc = 122 -> "High 4:2:2"
      [] profile_idc = 244 -> "High 4:4:4 Predictive"
      [] profile_idc = 44 -> "CAVLC 4:4:4 Intra"
      [] profile_idc = 83 -> "Scalable Baseline"
      [] profile_idc = 86 -> "Scalable High"
      [] profile_idc = 118 -> "Multiview High"
      [] profile_idc = 128 -> "Stereo High"
      [] profile_idc = 138 -> "Multiview Depth High"
      [] OTHER -> "Profile " \o ToString(profile_idc)

\* format!("{}.{}", level_idc / 10, level_idc % 10)
LevelName(level_idc) == ToString(level_idc \div 10) \o "." \o ToString(level_idc % 10)

RECURSIVE remove_emulation_prevention(_)
remove_emulation_prevention(data) ==
    IF data = <<>> THEN <<>>
    ELSE IF Len(data) > 2 /\ data[1] = 0 /\ data[2] = 0 /\ data[3] = 3
    THEN <<0, 0>> \o remove_emulation_prevention(SubSeq(data, 4, Len(data)))
    ELSE <<data[1]>> \o remove_emulation_prevention(Tail(data))

\* BitstreamReader: the reader's place is pos = 8 * byte_offset + bit_offset,
\* and a read gives the value v and the place p after it
Read(v, p) == [v |-> v, p |-> p]

BitAt(data, pos) == (data[(pos \div 8) + 1] \div (2 ^ (7 - (pos % 8)))) % 2

\* the value of the n bits from pos on, all of them within data
RECURSIVE BitsValue(_, _, _)
BitsValue(data, pos, n) ==
    IF n = 0 THEN 0 ELSE 2 * BitsValue(data, pos, n - 1) + BitAt(data, pos + n - 1)

\* read_bits: at the end of data it returns the bits read so far
read_bits(data, pos, count) ==
    Read(BitsValue(data, pos, Min(count, 8 * Len(data) - pos)),
         pos + Min(count, 8 * Len(data) - pos))

\* the loop of read_exp_golomb: a read at the end of data gives a 0 bit and
\* moves nothing; over is the safety limit met
RECURSIVE LeadingZeros(_, _, _)
LeadingZeros(data, pos, leading_zeros) ==
    IF pos >= 8 * Len(data)
    THEN [over |-> TRUE, leading_zeros |-> leading_zeros, p |-> pos]
    ELSE IF BitAt(data, pos) = 1
    THEN [over |-> FALSE, leading_zeros |-> leading_zeros, p |-> pos + 1]
    ELSE IF leading_zeros + 1 > 32
    THEN [over |-> TRUE, leading_zeros |-> leading_zeros + 1, p |-> pos + 1]
    ELSE LeadingZeros(data, pos + 1, leading_zeros + 1)

\* a u64 too large for one number, as hi * 2^16 + lo with lo < 2^16
U64(hi, lo) == [hi |-> hi, lo |-> lo]

U64Add(a, b) == U64(a.hi + b.hi + ((a.lo + b.lo) \div 65536), (a.lo + b.lo) % 65536)

\* the value of the n bits from pos on, all of them within data, n <= 32
U64Bits(data, pos, n) ==
    IF n <= 16 THEN U64(0, BitsValue(data, pos, n))
    ELSE U64(BitsValue(data, pos, n - 16), BitsValue(data, pos + n - 16, 16))

\* (mutant) the suffix is added to 1 << leading_zeros
PrefixShifted(leading_zeros) ==
    IF leading_zeros < 16 THEN U64(0, 2 ^ leading_zeros)
    ELSE U64(2 ^ (leading_zeros - 16), 0)

\* (1u64 << leading_zeros) - 1
Prefix(leading_zeros) ==
    IF leading_zeros <= 16 THEN U64(0, 2 ^ leading_zeros - 1)
    ELSE U64(2 ^ (leading_zeros - 16) - 1, 65535)

\* read_exp_golomb, the value as a U64; the suffix is what read_bits gives,
\* which at the end of data is the bits read so far
read_exp_golomb(data, pos) ==
    Let([z \in {LeadingZeros(data, pos, 0)} |->
        IF z.over \/ z.leading_zeros = 0 THEN Read(U64(0, 0), z.p)
        ELSE Let([count \in {Min(z.leading_zeros, 8 * Len(data) - z.p)} |->
                 Read(U64Add(Prefix(z.leading_zeros), U64Bits(data, z.p, count)),
                      z.p + count)])])

\* read_exp_golomb, the value as one number: the arithmetic of parse_sps is
\* done on numbers, and no code of its inputs has more than 30 leading zeros
ReadExpGolomb(data, pos) ==
    Let([code \in {read_exp_golomb(data, pos)} |->
        Read(code.v.hi * 65536 + code.v.lo, code.p)])

read_signed_exp_golomb(data, pos) ==
    Let([code \in {ReadExpGolomb(data, pos)} |->
        IF code.v = 0 THEN Read(0, code.p)
        ELSE IF code.v % 2 = 0 THEN Read(-((code.v + 1) \div 2), code.p)
        ELSE Read((code.v + 1) \div 2, code.p)])

\* the remainder of i64: it has the sign of a
Rem(a, b) == IF a >= 0 THEN a % b ELSE -((-a) % b)

\* skip_scaling_list: the reader's place after it
RECURSIVE skip_scaling_list(_, _, _, _, _)
skip_scaling_list(data, pos, size, last_scale, next_scale) ==
    IF size = 0 THEN pos
    ELSE IF next_scale = 0 THEN pos
    ELSE Let([delta \in {read_signed_exp_golomb(data, pos)} |->
             Let([next \in {Rem(last_scale + delta.v + 256, 256)} |->
                 skip_scaling_list(data, delta.p, size - 1,
                                   IF next = 0 THEN last_scale ELSE next, next)])])

HighProfiles == {100, 110, 122, 244, 44, 83, 86, 118, 128, 138, 139, 134, 135}

\* the scaling lists of parse_sps from list i on: the reader's place after them
RECURSIVE SkipScalingLists(_, _, _, _)
SkipScalingLists(data, pos, i, count) ==
    IF i >= count THEN pos
    ELSE Let([present \in {read_bits(data, pos, 1)} |->
             IF present.v # 0
             THEN Let([p \in {skip_scaling_list(data, present.p, IF i < 6 THEN 16 ELSE 64, 8, 8)} |-> SkipScalingLists(data, p, i + 1, count)])
             ELSE SkipScalingLists(data, present.p, i + 1, count)])

\* the fields of parse_sps that the High profiles add: the reader's place
\* after them
SpsHighFields(data, pos) ==
    Let([chroma_format_idc \in {ReadExpGolomb(data, pos)} |->
    Let([p1 \in {IF chroma_format_idc.v = 3 THEN read_bits(data, chroma_format_idc.p, 1).p
         ELSE chroma_format_idc.p} |->
    Let([bit_depth_luma \in {ReadExpGolomb(data, p1)} |->
    Let([bit_depth_chroma \in {ReadExpGolomb(data, bit_depth_luma.p)} |->
    Let([qpprime_y_zero \in {read_bits(data, bit_depth_chroma.p, 1)} |->
    Let([scaling_matrix_present \in {read_bits(data, qpprime_y_zero.p, 1)} |->
        IF scaling_matrix_present.v # 0
        THEN SkipScalingLists(data, scaling_matrix_present.p, 0,
                              IF chroma_format_idc.v # 3 THEN 8 ELSE 12)
        ELSE scaling_matrix_present.p])])])])])])

\* n times read_signed_exp_golomb: the reader's place after them
RECURSIVE SkipOffsets(_, _, _)
SkipOffsets(data, pos, n) ==
    IF n = 0 THEN pos
    ELSE Let([offset \in {read_signed_exp_golomb(data, pos)} |->
             SkipOffsets(data, offset.p, n - 1)])

\* log2_max_frame_num_minus4, pic_order_cnt_type and what the type brings: the
\* reader's place after them
SpsPocFields(data, pos) ==
    Let([log2_max_frame_num \in {ReadExpGolomb(data, pos)} |->
    Let([poc_type \in {ReadExpGolomb(data, log2_max_frame_num.p)} |->
        IF poc_type.v = 0 THEN ReadExpGolomb(data, poc_type.p).p
        ELSE IF poc_type.v = 1
        THEN Let([delta_always_zero \in {read_bits(data, poc_type.p, 1)} |->
             Let([offset_for_non_ref \in {read_signed_exp_golomb(data, delta_always_zero.p)} |->
             Let([offset_for_top \in {read_signed_exp_golomb(data, offset_for_non_ref.p)} |->
             Let([num_ref_frames_in_poc \in {ReadExpGolomb(data, offset_for_top.p)} |->
                 SkipOffsets(data, num_ref_frames_in_poc.p, num_ref_frames_in_poc.v)])])])])
        ELSE poc_type.p])])

\* a u64 that fits an integer, negative when the subtraction wrapped, as u32
AsU32(x) == U32((x \div 65536) % 65536, x % 65536)

\* the frame cropping of parse_sps: crop_left + crop_right and
\* crop_top + crop_bottom
SpsCropping(data, pos) ==
    Let([cropping \in {read_bits(data, pos, 1)} |->
        IF cropping.v # 0
        THEN Let([crop_left \in {ReadExpGolomb(data, cropping.p)} |->
             Let([crop_right \in {ReadExpGolomb(data, crop_left.p)} |->
             Let([crop_top \in {ReadExpGolomb(data, crop_right.p)} |->
             Let([crop_bottom \in {ReadExpGolomb(data, crop_top.p)} |->
                 [x |-> crop_left.v + crop_right.v, y |-> crop_top.v + crop_bottom.v]])])])])
        ELSE [x |-> 0, y |-> 0]])

\* parse_sps from max_num_ref_frames on: final_width and final_height as u32,
\* the subtractions wrapping
SpsDimensions(data, pos) ==
    Let([max_ref_frames \in {ReadExpGolomb(data, pos)} |->
    Let([gaps \in {read_bits(data, max_ref_frames.p, 1)} |->
    Let([pic_width_mbs_minus1 \in {ReadExpGolomb(data, gaps.p)} |->
    Let([pic_height_map_units_minus1 \in {ReadExpGolomb(data, pic_width_mbs_minus1.p)} |->
    Let([frame_mbs_only \in {read_bits(data, pic_height_map_units_minus1.p, 1)} |->
    Let([p1 \in {IF frame_mbs_only.v = 0 THEN read_bits(data, frame_mbs_only.p, 1).p
         ELSE frame_mbs_only.p} |->
    Let([direct_8x8 \in {read_bits(data, p1, 1)} |->
    Let([crop \in {SpsCropping(data, direct_8x8.p)} |->
        [width |-> AsU32((pic_width_mbs_minus1.v + 1) * 16 - 2 * crop.x),
         height |-> AsU32((pic_height_map_units_minus1.v + 1) * 16 * (2 - frame_mbs_only.v)
                            - 2 * (2 - frame_mbs_only.v) * crop.y)]])])])])])])])])

\* parse_sps on the bytes after the NAL header, which are not empty
SpsFields(va, data) ==
    Let([profile_idc \in {read_bits(data, 0, 8)} |->
    Let([constraints \in {read_bits(data, profile_idc.p, 8)} |->
    Let([level_idc \in {read_bits(data, constraints.p, 8)} |->
    Let([sps_id \in {ReadExpGolomb(data, level_idc.p)} |->
    Let([p1 \in {IF profile_idc.v \in HighProfiles THEN SpsHighFields(data, sps_id.p)
         ELSE sps_id.p} |->
    Let([p2 \in {SpsPocFields(data, p1)} |->
    Let([final \in {SpsDimensions(data, p2)} |->
        [va EXCEPT !.profile = <<h264_profile_name(profile_idc.v)>>,
                   !.level = <<LevelName(level_idc.v)>>,
                   !.width = <<final.width>>,
                   !.height = <<final.height>>]])])])])])])])

parse_sps(va, nalu) ==
    IF nalu = <<>> THEN va
    ELSE Let([rbsp \in {remove_emulation_prevention(nalu)} |->
             IF Len(rbsp) < 2 THEN va ELSE SpsFields(va, Tail(rbsp))])

\* the loop of parse_avc_sequence_header over the parameter sets; a set that
\* does not fit ends the function before avc_config_received is set
RECURSIVE ParseSpsList(_, _, _, _)
ParseSpsList(va, data, offset, num_sps) ==
    IF num_sps = 0 THEN [va EXCEPT !.avc_config_received = TRUE]
    ELSE IF offset + 2 > Len(data) THEN va
    ELSE Let([sps_len \in {At(data, offset) * 256 + At(data, offset + 1)} |->
             IF offset + 2 + sps_len > Len(data) THEN va
             ELSE Let([after \in {parse_sps(va, SubSeq(data, offset + 3, offset + 2 + sps_len))} |->
                          ParseSpsList(after, data, offset + 2 + sps_len, num_sps - 1)])])

parse_avc_sequence_header(va, data) ==
    IF Len(data) < 6 THEN va
    ELSE ParseSpsList([va EXCEPT !.nalu_length_size = (At(data, 4) % 4) + 1,
                                 !.profile = <<h264_profile_name(At(data, 1))>>,
                                 !.level = <<LevelName(At(data, 3))>>],
                      data, 6, At(data, 5) % 32)

\* the composition time of an AVC packet: 24 bits, sign-extended
CompositionTime(data) ==
    IF At(data, 2) >= 128
    THEN At(data, 2) * 65536 + At(data, 3) * 256 + At(data, 4) - 16777216
    ELSE At(data, 2) * 65536 + At(data, 3) * 256 + At(data, 4)

\* the frame counted, a keyframe
CountKeyframe(va) ==
    [va EXCEPT !.total_video_frames = @ + 1, !.keyframe_count = @ + 1]

\* the frame counted, an inter frame
CountInter(va) ==
    [va EXCEPT !.total_video_frames = @ + 1, !.inter_frame_count = @ + 1]

\* the frame counted, a B-frame
CountB(va) ==
    [va EXCEPT !.total_video_frames = @ + 1, !.b_frame_count = @ + 1]

\* the frame counted in the total only
CountOther(va) == [va EXCEPT !.total_video_frames = @ + 1]

\* (mutant) every payload is counted the way the payloads of other codecs are
ProcessFrameCounted(va, data, frame_type) ==
    IF frame_type = "VideoInfo" THEN va
    ELSE IF frame_type \in {"Keyframe", "GeneratedKeyframe"} THEN CountKeyframe(va)
    ELSE IF frame_type \in {"Inter", "DisposableInter"} THEN CountInter(va)
    ELSE CountOther(va)

\* process after the bytes are counted and the codec is set
ProcessFrame(va, data, frame_type) ==
    IF frame_type = "VideoInfo" THEN va
    ELSE IF va.codec[1].kind = "Avc" /\ Len(data) >= 5
    THEN CASE At(data, 1) = 0 ->
                IF Len(data) > 5
                THEN parse_avc_sequence_header(va, SubSeq(data, 6, Len(data)))
                ELSE va
           [] At(data, 1) = 1 ->
                IF frame_type \in {"Keyframe", "GeneratedKeyframe"} THEN CountKeyframe(va)
                ELSE IF frame_type \in {"Inter", "DisposableInter"}
                THEN IF CompositionTime(data) # 0 THEN CountB(va) ELSE CountInter(va)
                ELSE CountOther(va)
           [] OTHER -> va
    ELSE IF frame_type \in {"Keyframe", "GeneratedKeyframe"} THEN CountKeyframe(va)
    ELSE IF frame_type \in {"Inter", "DisposableInter"} THEN CountInter(va)
    ELSE CountOther(va)

\* VideoAnalyzer::process(data, _timestamp)
process(va, data) ==
    IF data = <<>> THEN va
    ELSE ProcessFrame([va EXCEPT !.total_video_bytes = @ + Len(data),
                                 !.codec = <<VideoCodecFromId(data[1] % 16)>>],
                      data, FrameTypeFromId(data[1] \div 16))

----------------------------------------------------------------------------
(* The audio analyzer: flv/audio.rs *)

\* AudioCodec::from_id
AudioCodecFromId(id) ==
    [kind |-> CASE id = 0 -> "LinearPcmPlatformEndian"
                [] id = 1 -> "Adpcm"
                [] id = 2 -> "Mp3"
                [] id = 3 -> "LinearPcmLittleEndian"
                [] id = 4 -> "Nellymoser16k"
                [] id = 5 -> "Nellymoser8k"
                [] id = 6 -> "Nellymoser"
                [] id = 7 -> "G711ALaw"
                [] id = 8 -> "G711MuLaw"
                [] id = 10 -> "Aac"
                [] id = 11 -> "Speex"
                [] id = 14 -> "Mp3_8k"
                [] id = 15 -> "DeviceSpecific"
                [] OTHER -> "Unknown",
     id |-> id]

\* AudioAnalyzer::new
AudioAnalyzerNew ==
    [codec |-> <<>>, sample_rate |-> <<>>, channels |-> <<>>, sample_size |-> <<>>,
     aac_profile |-> <<>>, asc_sample_rate |-> <<>>, asc_channels |-> <<>>,
     asc_received |-> FALSE, total_audio_bytes |-> 0, total_audio_frames |-> 0]

effective_sample_rate(aa) ==
    IF aa.asc_sample_rate # <<>> THEN aa.asc_sample_rate ELSE aa.sample_rate

effective_channels(aa) == IF aa.asc_channels # <<>> THEN aa.asc_channels ELSE aa.channels

AacProfileName(audio_object_type) ==
    CASE audio_object_type = 1 -> "AAC Main"
      [] audio_object_type = 2 -> "AAC-LC"
      [] audio_object_type = 3 -> "AAC SSR"
      [] audio_object_type = 4 -> "AAC LTP"
      [] audio_object_type = 5 -> "HE-AAC (SBR)"
      [] audio_object_type = 6 -> "AAC Scalable"
      [] audio_object_type = 23 -> "ER AAC LD"
      [] audio_object_type = 29 -> "HE-AAC v2 (SBR+PS)"
      [] audio_object_type = 39 -> "ER AAC ELD"
      [] OTHER -> "AAC Object Type " \o ToString(audio_object_type)

SAMPLE_RATES ==
    <<96000, 88200, 64000, 48000, 44100, 32000, 24000, 22050, 16000, 12000, 11025, 8000,
      7350>>

\* sample_freq_index: the lower 3 bits of byte0 and the upper bit of byte1
SampleFreqIndex(byte0, byte1) == (byte0 % 8) * 2 + (byte1 \div 128)

parse_audio_specific_config(aa, data) ==
    IF Len(data) < 2 THEN aa
    ELSE [aa EXCEPT
            !.aac_profile = <<AacProfileName(data[1] \div 8)>>,
            !.asc_sample_rate =
                IF SampleFreqIndex(data[1], data[2]) < Len(SAMPLE_RATES)
                THEN <<SAMPLE_RATES[SampleFreqIndex(data[1], data[2]) + 1]>> ELSE @,
            !.asc_channels = <<(data[2] \div 8) % 16>>,
            !.asc_received = TRUE]

\* the sample rate of sound_rate_idx
SoundRate(sound_rate_idx) ==
    CASE sound_rate_idx = 0 -> 5500
      [] sound_rate_idx = 1 -> 11025
      [] sound_rate_idx = 2 -> 22050
      [] OTHER -> 44100

\* AudioAnalyzer::process after the bytes are counted and the header byte is read
AudioProcessFrame(aa, data) ==
    IF data[1] \div 16 = 10 /\ Len(data) >= 2
    THEN CASE data[2] = 0 ->
                IF Len(data) >= 4
                THEN parse_audio_specific_config(aa, SubSeq(data, 3, Len(data)))
                ELSE aa
           [] data[2] = 1 -> [aa EXCEPT !.total_audio_frames = @ + 1]
           [] OTHER -> aa
    ELSE [aa EXCEPT !.total_audio_frames = @ + 1]

\* AudioAnalyzer::process(data, _timestamp)
audio_process(aa, data) ==
    IF data = <<>> THEN aa
    ELSE AudioProcessFrame(
             [aa EXCEPT !.total_audio_bytes = @ + Len(data),
                        !.codec = <<AudioCodecFromId(data[1] \div 16)>>,
                        !.sample_size = <<IF (data[1] \div 2) % 2 = 0 THEN 8 ELSE 16>>,
                        !.channels = <<IF data[1] % 2 = 0 THEN 1 ELSE 2>>,
                        !.sample_rate = <<SoundRate((data[1] \div 4) % 4)>>],
             data)

----------------------------------------------------------------------------
(* Stream statistics: stats.rs.  An Instant is a number of milliseconds, a
   Duration and a number of seconds (f64) are numbers of milliseconds too *)

\* Duration::from_secs(2)
WindowDuration == 2000

\* StreamStats::new
StreamStatsNew ==
    [stream_start |-> <<>>, duration_secs |-> 0,
     video_frame_times |-> <<>>, video_byte_window |-> <<>>, audio_byte_window |-> <<>>,
     window_duration |-> WindowDuration,
     last_keyframe_time |-> <<>>, keyframe_interval_secs |-> <<>>,
     total_video_bytes |-> 0, total_audio_bytes |-> 0]

\* while front().map_or(false, |t| *t < cutoff) { pop_front() }
RECURSIVE TrimTimes(_, _)
TrimTimes(times, cutoff) ==
    IF times # <<>> /\ Head(times) < cutoff THEN TrimTimes(Tail(times), cutoff) ELSE times

\* while front().map_or(false, |(t, _)| *t < cutoff) { pop_front() }
RECURSIVE TrimWindow(_, _)
TrimWindow(window, cutoff) ==
    IF window # <<>> /\ Head(window)[1] < cutoff THEN TrimWindow(Tail(window), cutoff)
    ELSE window

\* stream_start after `if self.stream_start.is_none()`
StartOf(s, now) == IF s.stream_start = <<>> THEN now ELSE s.stream_start[1]

\* record_video_frame(byte_count, is_keyframe) with Instant::now() = now
record_video_frame(s, now, byte_count, is_keyframe) ==
    [s EXCEPT
       !.stream_start = <<StartOf(s, now)>>,
       !.video_frame_times =
           TrimTimes(Append(s.video_frame_times, now), now - s.window_duration),
       !.video_byte_window =
           TrimWindow(Append(s.video_byte_window, <<now, byte_count>>),
                      now - s.window_duration),
       !.total_video_bytes = @ + byte_count,
       !.keyframe_interval_secs =
           IF is_keyframe /\ s.last_keyframe_time # <<>>
           THEN <<now - s.last_keyframe_time[1]>> ELSE @,
       !.last_keyframe_time = IF is_keyframe THEN <<now>> ELSE @,
       !.duration_secs = now - StartOf(s, now)]

\* record_audio_frame(byte_count) with Instant::now() = now
record_audio_frame(s, now, byte_count) ==
    [s EXCEPT
       !.stream_start = <<StartOf(s, now)>>,
       !.audio_byte_window =
           TrimWindow(Append(s.audio_byte_window, <<now, byte_count>>),
                      now - s.window_duration),
       !.total_audio_bytes = @ + byte_count,
       !.duration_secs = now - StartOf(s, now)]

----------------------------------------------------------------------------
(* Stream diagnostics: diagnostics.rs *)

U32Lt(a, b) == a.hi < b.hi \/ (a.hi = b.hi /\ a.lo < b.lo)

\* a - b of u32 where a >= b
U32Sub(a, b) ==
    IF a.lo >= b.lo THEN U32(a.hi - b.hi, a.lo - b.lo)
    ELSE U32(a.hi - b.hi - 1, a.lo + 65536 - b.lo)

\* the literal 0x80000000
HalfRange == U32(32768, 0)

\* an i64 between -2^32 and 2^32: its sign and its absolute value
I64(neg, abs) == [neg |-> neg, abs |-> abs]

\* (v as i64) - (a as i64)
I64Diff(v, a) == IF U32Lt(v, a) THEN I64(TRUE, U32Sub(a, v)) ELSE I64(FALSE, U32Sub(v, a))

\* Severity: Info < Warning < Error
SeverityRank == [Info |-> 0, Warning |-> 1, Error |-> 2]

\* Diagnostic::info / warning / error; a message is the text of its format
\* string and the arguments formatted into it
Diagnostic(severity, category, message) ==
    [severity |-> severity, category |-> category, message |-> message]

ServiceProfiles == {"Twitch", "YouTube", "Generic"}

\* StreamDiagnostics::new
StreamDiagnosticsNew ==
    [profile |-> "Generic",
     avc_seq_header_received |-> FALSE, avc_seq_header_time |-> <<>>,
     aac_seq_header_received |-> FALSE, aac_seq_header_time |-> <<>>,
     first_keyframe_time |-> <<>>, stream_start_time |-> <<>>,
     last_video_ts |-> <<>>, last_audio_ts |-> <<>>,
     video_ts_rollbacks |-> 0, audio_ts_rollbacks |-> 0,
     max_video_ts_gap |-> U32Zero, max_audio_ts_gap |-> U32Zero,
     max_av_desync_ms |-> I64(FALSE, U32Zero),
     metadata_received |-> FALSE, metadata_has_dimensions |-> FALSE,
     metadata_has_framerate |-> FALSE, metadata_has_bitrate |-> FALSE,
     has_b_frames |-> FALSE, keyframe_intervals |-> <<>>,
     diagnostics |-> <<>>, last_check_time |-> <<>>]

set_profile(d, profile) == [d EXCEPT !.profile = profile]

record_stream_start(d, now) ==
    IF d.stream_start_time = <<>> THEN [d EXCEPT !.stream_start_time = <<now>>] ELSE d

record_avc_seq_header(d, now) ==
    IF ~d.avc_seq_header_received
    THEN [d EXCEPT !.avc_seq_header_received = TRUE, !.avc_seq_header_time = <<now>>]
    ELSE d

record_aac_seq_header(d, now) ==
    IF ~d.aac_seq_header_received
    THEN [d EXCEPT !.aac_seq_header_received = TRUE, !.aac_seq_header_time = <<now>>]
    ELSE d

\* "Keep last 10 intervals"
KeptIntervals == 10

\* (mutant) every interval is kept
record_keyframe_all(d, now, interval_secs) ==
    [d EXCEPT
       !.first_keyframe_time = IF @ = <<>> THEN <<now>> ELSE @,
       !.keyframe_intervals =
           IF interval_secs = <<>> THEN @ ELSE Append(@, interval_secs[1])]

record_keyframe(d, now, interval_secs) ==
    [d EXCEPT
       !.first_keyframe_time = IF @ = <<>> THEN <<now>> ELSE @,
       !.keyframe_intervals =
           IF interval_secs = <<>> THEN @
           ELSE IF Len(@) + 1 > KeptIntervals THEN Tail(Append(@, interval_secs[1]))
           ELSE Append(@, interval_secs[1])]

update_av_desync(d) ==
    IF d.last_video_ts # <<>> /\ d.last_audio_ts # <<>>
          /\ U32Lt(d.max_av_desync_ms.abs,
                   I64Diff(d.last_video_ts[1], d.last_audio_ts[1]).abs)
    THEN [d EXCEPT !.max_av_desync_ms = I64Diff(d.last_video_ts[1], d.last_audio_ts[1])]
    ELSE d

\* (mutant) every timestamp below the last one is a rollback
IsRollbackAlways(ts, last) == U32Lt(ts, last)

\* ts < last && (last - ts) < 0x80000000
IsRollback(ts, last) == U32Lt(ts, last) /\ U32Lt(U32Sub(last, ts), HalfRange)

\* the larger of the gap so far and the gap from last to ts, which is later
WiderGap(gap, ts, last) == IF U32Lt(gap, U32Sub(ts, last)) THEN U32Sub(ts, last) ELSE gap

record_video_timestamp(d, ts) ==
    update_av_desync(
        [d EXCEPT
           !.video_ts_rollbacks =
               IF d.last_video_ts # <<>> /\ IsRollback(ts, d.last_video_ts[1])
               THEN @ + 1 ELSE @,
           !.max_video_ts_gap =
               IF d.last_video_ts # <<>> /\ ~IsRollback(ts, d.last_video_ts[1])
                     /\ U32Lt(d.last_video_ts[1], ts)
               THEN WiderGap(@, ts, d.last_video_ts[1]) ELSE @,
           !.last_video_ts = <<ts>>])

record_audio_timestamp(d, ts) ==
    update_av_desync(
        [d EXCEPT
           !.audio_ts_rollbacks =
               IF d.last_audio_ts # <<>> /\ IsRollback(ts, d.last_audio_ts[1])
               THEN @ + 1 ELSE @,
           !.max_audio_ts_gap =
               IF d.last_audio_ts # <<>> /\ ~IsRollback(ts, d.last_audio_ts[1])
                     /\ U32Lt(d.last_audio_ts[1], ts)
               THEN WiderGap(@, ts, d.last_audio_ts[1]) ELSE @,
           !.last_audio_ts = <<ts>>])

record_b_frame(d) == [d EXCEPT !.has_b_frames = TRUE]

record_metadata(d, has_dimensions, has_framerate, has_bitrate) ==
    [d EXCEPT !.metadata_received = TRUE, !.metadata_has_dimensions = has_dimensions,
              !.metadata_has_framerate = has_framerate,
              !.metadata_has_bitrate = has_bitrate]

\* at most one diagnostic: the one pushed when cond holds
PushIf(cond, diagnostic) == IF cond THEN <<diagnostic>> ELSE <<>>

\* "SEQUENCE HEADERS"
CheckSequenceHeaders(d) ==
    PushIf(~d.avc_seq_header_received,
           Diagnostic("Error", "Video", <<"No AVC sequence header received">>))
      \o PushIf(~d.aac_seq_header_received,
                Diagnostic("Error", "Audio", <<"No AAC sequence header received">>))

\* "FIRST KEYFRAME TIMING"
CheckFirstKeyframe(d, now) ==
    IF d.stream_start_time = <<>> THEN <<>>
    ELSE IF d.first_keyframe_time = <<>>
    THEN PushIf(now - d.stream_start_time[1] > 2000,
                Diagnostic("Warning", "Video",
                           <<"No keyframe received after {:.1}s",
                             now - d.stream_start_time[1]>>))
    ELSE PushIf(d.first_keyframe_time[1] - d.stream_start_time[1] > 1000,
                Diagnostic("Warning", "Video",
                           <<"First keyframe took {:.2}s to arrive",
                             d.first_keyframe_time[1] - d.stream_start_time[1]>>))

\* max_interval of the profile
MaxInterval(profile) == IF profile = "Twitch" THEN 2000 ELSE 4000

\* (mutant) the limit is part of the near range
IsNearLimitThrough(interval, max_interval) == 10 * interval >= 9 * max_interval

\* interval > max_interval * 0.9
IsNearLimit(interval, max_interval) == 10 * interval > 9 * max_interval

\* "KEYFRAME INTERVAL"
CheckKeyframeInterval(d, current_keyframe_interval) ==
    IF current_keyframe_interval = <<>> THEN <<>>
    ELSE IF current_keyframe_interval[1] > MaxInterval(d.profile)
    THEN <<Diagnostic("Error", "Video",
                      <<"Keyframe interval {:.1}s exceeds {} max ({:.0}s)",
                        current_keyframe_interval[1], d.profile, MaxInterval(d.profile)>>)>>
    ELSE PushIf(IsNearLimit(current_keyframe_interval[1], MaxInterval(d.profile)),
                Diagnostic("Warning", "Video",
                           <<"Keyframe interval {:.1}s near {} limit ({:.0}s)",
                             current_keyframe_interval[1], d.profile,
                             MaxInterval(d.profile)>>))

\* "B-FRAMES"
CheckBFrames(d) ==
    IF ~d.has_b_frames THEN <<>>
    ELSE IF d.profile = "Twitch"
    THEN <<Diagnostic("Warning", "Video",
                      <<"B-frames detected (may increase latency on Twitch)">>)>>
    ELSE <<Diagnostic("Info", "Video", <<"B-frames detected">>)>>

\* profile.contains("Baseline"), for the names h264_profile_name gives
ContainsBaseline(profile) == profile \in {"Baseline", "Scalable Baseline"}

\* "VIDEO PROFILE"
CheckVideoProfile(video_profile) ==
    PushIf(video_profile # <<>> /\ ContainsBaseline(video_profile[1]),
           Diagnostic("Info", "Video",
                      <<"Baseline profile (consider Main/High for better compression)">>))

\* the resolutions of is_standard
StandardResolutions ==
    { <<1920, 1080>>, <<1280, 720>>, <<854, 480>>, <<640, 360>>,
      <<2560, 1440>>, <<3840, 2160>>, <<1080, 1920>>, <<720, 1280>> }

IsStandard(w, h) == w.hi = 0 /\ h.hi = 0 /\ <<w.lo, h.lo>> \in StandardResolutions

\* (mutant) only the width is looked at
HasOddWidth(w, h) == ~IsStandard(w, h) /\ w.lo % 2 # 0

\* !is_standard && w % 2 != 0 || h % 2 != 0
HasOddDimensions(w, h) == (~IsStandard(w, h) /\ w.lo % 2 # 0) \/ h.lo % 2 # 0

\* "RESOLUTION"
CheckResolution(video_width, video_height) ==
    PushIf(video_width # <<>> /\ video_height # <<>>
              /\ HasOddDimensions(video_width[1], video_height[1]),
           Diagnostic("Error", "Video",
                      <<"Resolution {}x{} has odd dimensions (must be even)",
                        video_width, video_height>>))

\* the sample rates the profile allows
AllowedSampleRates(profile) ==
    CASE profile = "Twitch" -> {44100, 48000}
      [] profile = "YouTube" -> {44100, 48000, 96000}
      [] OTHER -> {22050, 44100, 48000, 96000}

\* "AUDIO SAMPLE RATE"
CheckSampleRate(d, audio_sample_rate) ==
    PushIf(audio_sample_rate # <<>> /\ audio_sample_rate[1] \notin AllowedSampleRates(d.profile),
           Diagnostic("Error", "Audio",
                      <<"{} Hz sample rate not supported by {}", audio_sample_rate, d.profile>>))

\* "AUDIO CHANNELS"
CheckChannels(d, audio_channels) ==
    IF audio_channels = <<>> THEN <<>>
    ELSE IF audio_channels[1] = 1
    THEN <<Diagnostic("Warning", "Audio",
                      <<"Mono audio (stereo recommended for streaming)">>)>>
    ELSE PushIf(audio_channels[1] > 2 /\ d.profile = "Twitch",
                Diagnostic("Error", "Audio",
                           <<"{} channels not supported by Twitch (max 2)", audio_channels>>))

\* profile.contains("Main"), and contains("HE-AAC") || contains("SBR"), for
\* the names parse_audio_specific_config gives
ContainsMain(profile) == profile = "AAC Main"

ContainsHeAac(profile) == profile \in {"HE-AAC (SBR)", "HE-AAC v2 (SBR+PS)"}

\* "AAC PROFILE"
CheckAacProfile(d, aac_profile) ==
    IF aac_profile = <<>> THEN <<>>
    ELSE IF ContainsMain(aac_profile[1])
    THEN <<Diagnostic("Warning", "Audio",
                      <<"AAC Main profile (AAC-LC recommended for compatibility)">>)>>
    ELSE PushIf(ContainsHeAac(aac_profile[1]) /\ d.profile = "Twitch",
                Diagnostic("Warning", "Audio",
                           <<"HE-AAC may have compatibility issues on Twitch">>))

\* the literals 1000 and 500 as u32
U32OfSmall(n) == U32(0, n)

\* "TIMESTAMP ISSUES"
CheckTimestamps(d) ==
    PushIf(d.video_ts_rollbacks > 0,
           Diagnostic("Error", "Timing",
                      <<"{} video timestamp rollback(s) detected", d.video_ts_rollbacks>>))
      \o PushIf(d.audio_ts_rollbacks > 0,
                Diagnostic("Error", "Timing",
                           <<"{} audio timestamp rollback(s) detected",
                             d.audio_ts_rollbacks>>))
      \o PushIf(U32Lt(U32OfSmall(1000), d.max_video_ts_gap),
                Diagnostic("Warning", "Timing",
                           <<"Large video timestamp gap detected ({}ms)",
                             d.max_video_ts_gap>>))
      \o PushIf(U32Lt(U32OfSmall(1000), d.max_audio_ts_gap),
                Diagnostic("Warning", "Timing",
                           <<"Large audio timestamp gap detected ({}ms)",
                             d.max_audio_ts_gap>>))
      \o PushIf(U32Lt(U32OfSmall(500), d.max_av_desync_ms.abs),
                Diagnostic("Warning", "Timing",
                           <<"A/V desync detected ({}ms)", d.max_av_desync_ms>>))

\* "METADATA": as_secs() is the whole seconds
CheckMetadata(d, now) ==
    PushIf(~d.metadata_received /\ d.stream_start_time # <<>>
              /\ (now - d.stream_start_time[1]) \div 1000 > 2,
           Diagnostic("Warning", "Metadata", <<"No onMetaData received from encoder">>))

IsError(diagnostic) == diagnostic.severity = "Error"

IsWarning(diagnostic) == diagnostic.severity = "Warning"

IsInfo(diagnostic) == diagnostic.severity = "Info"

\* (mutant) the diagnostics stay in the order the checks pushed them
SortUnsorted(items) == items

\* sort_by(|a, b| b.severity.cmp(&a.severity)): the sort is stable
SortBySeverity(items) ==
    SelectSeq(items, IsError) \o SelectSeq(items, IsWarning) \o SelectSeq(items, IsInfo)

\* the arguments of check_all
CheckArgs(video_width, video_height, video_profile, audio_sample_rate, audio_channels,
          aac_profile, current_keyframe_interval) ==
    [video_width |-> video_width, video_height |-> video_height,
     video_profile |-> video_profile, audio_sample_rate |-> audio_sample_rate,
     audio_channels |-> audio_channels, aac_profile |-> aac_profile,
     current_keyframe_interval |-> current_keyframe_interval]

\* the checks of check_all in the order they push
AllChecks(d, now, a) ==
    CheckSequenceHeaders(d) \o CheckFirstKeyframe(d, now)
        \o CheckKeyframeInterval(d, a.current_keyframe_interval)
        \o CheckBFrames(d) \o CheckVideoProfile(a.video_profile)
        \o CheckResolution(a.video_width, a.video_height)
        \o CheckSampleRate(d, a.audio_sample_rate) \o CheckChannels(d, a.audio_channels)
        \o CheckAacProfile(d, a.aac_profile) \o CheckTimestamps(d) \o CheckMetadata(d, now)

\* the throttle of check_all
ThrottleMillis == 500

\* (mutant) a check exactly 500 ms after the last one is throttled too
IsThrottledThrough(d, now) ==
    d.last_check_time # <<>> /\ now - d.last_check_time[1] <= ThrottleMillis

\* now.duration_since(last).as_millis() < 500
IsThrottled(d, now) ==
    d.last_check_time # <<>> /\ now - d.last_check_time[1] < ThrottleMillis

\* check_all with Instant::now() = now: self afterwards; the buffer returned
\* is a clone of self.diagnostics
check_all(d, now, a) ==
    IF IsThrottled(d, now) THEN d
    ELSE [d EXCEPT !.last_check_time = <<now>>,
                   !.diagnostics = SortBySeverity(AllChecks(d, now, a))]

error_count(d) == Len(SelectSeq(d.diagnostics, IsError))

warning_count(d) == Len(SelectSeq(d.diagnostics, IsWarning))

----------------------------------------------------------------------------
(* handle_connection *)

\* the analyzers, the statistics and the diagnostics of handle_connection
\* before its loop: the profile is Twitch
\* perform_handshake before its first read, for a client that sends `client`
\* bytes in all
HandshakeNew(client) ==
    [client |-> client, c0c1 |-> <<>>, sent |-> <<>>, c2 |-> <<>>, result |-> <<>>]

MonitorNew ==
    /\ handshake = HandshakeNew(0)
    /\ audio_analyzer = AudioAnalyzerNew
    /\ stats = StreamStatsNew
    /\ diagnostics = set_profile(StreamDiagnosticsNew, "Twitch")
    /\ encoder_name = <<>>
    /\ clock = 0

\* no call made
NoCalls == input = [n |-> 0] /\ output = <<>>

\* handle_connection before its loop: nothing read, nothing pending
ConnNew ==
    /\ read_buf = <<>> /\ ack_data = <<>> /\ batch = <<>> /\ responses = <<>>
    /\ event = <<>> /\ publishing = FALSE /\ log = <<>> /\ parsed = <<>>
    /\ announced = DefaultChunkSize /\ rendered = 0
    /\ handled = <<>> /\ video_analyzer = VideoAnalyzerNew

----------------------------------------------------------------------------
(* The handler told of the bytes read, and of the peer's window size *)

TrackCounts == {1, 500000, 2499999, 2500000, 3000000}

PeerWindowPayloads ==
    {U32BytesOfNat(0), U32BytesOfNat(500000), U32BytesOfNat(DefaultWindowAckSize), <<0, 0>>}

InitAck ==
    /\ HandlerNew
    /\ acks = <<>> /\ tracked = <<>> /\ windowSet = FALSE
    /\ wire = <<>> /\ script = <<>> /\ buf = <<>> /\ states = NoStates
    /\ max_chunk_size = DefaultChunkSize /\ pc = "select" /\ emitted = <<>>
    /\ nreads = 0 /\ lastTry = NoTry
    /\ ConnNew
    /\ NoCalls
    /\ MonitorNew

\* track_bytes(count)
TrackBytes(count) ==
    /\ Len(tracked) < MaxCalls
    /\ bytes_received' = bytes_received + count
    /\ IF AckDue(window_ack_size, bytes_received + count, last_ack_sent)
       THEN /\ last_ack_sent' = bytes_received + count
            /\ acks' = Append(acks, AckMessage(bytes_received + count))
       ELSE UNCHANGED <<last_ack_sent, acks>>
    /\ tracked' = Append(tracked, count)
    /\ UNCHANGED <<app_name, stream_key, window_ack_size, windowSet, chunkVars, connVars,
                   callVars, monitorVars>>

\* handle() of a Window Ack Size message (type 5)
HandleWindowAckSize(payload) ==
    /\ window_ack_size' = WindowAckSizeOf(window_ack_size, payload)
    /\ windowSet' = TRUE
    /\ UNCHANGED <<app_name, stream_key, bytes_received, last_ack_sent, acks, tracked,
                   chunkVars, connVars, callVars, monitorVars>>

NextAck ==
    \/ \E count \in TrackCounts : TrackBytes(count)
    \/ \E payload \in PeerWindowPayloads : HandleWindowAckSize(payload)

SpecAck == InitAck /\ [][NextAck]_vars

----------------------------------------------------------------------------
(* Claims about track_bytes, checked under SpecAck *)

\* an acknowledgement as the chunk reader of the peer decodes it
AckDecoded(ack) == ReadMessages(ack, NoStates, DefaultChunkSize)

IsAckOf(ack, total) ==
    /\ AckDecoded(ack).buf = <<>>
    /\ DOMAIN AckDecoded(ack).states = {2}
    /\ Len(AckDecoded(ack).messages) = 1
    /\ AckDecoded(ack).messages[1].type_id = 3
    /\ AckDecoded(ack).messages[1].stream_id = U32Zero
    /\ Len(AckDecoded(ack).messages[1].payload) = 4
    /\ NatOfBE(AckDecoded(ack).messages[1].payload) = total

\* C7: track_bytes(n) returns an Acknowledgement (type 3, cs_id 2, stream 0)
\* exactly when window_ack_size > 0 and, n added, the bytes received since the
\* last acknowledgement are >= window_ack_size; its payload is the running
\* total in 4 big-endian bytes and last_ack_sent becomes the running total;
\* otherwise nothing is returned and last_ack_sent is unchanged.
C7_TrackBytes ==
    [][ tracked' # tracked =>
          /\ bytes_received' = bytes_received + Last(tracked')
          /\ IF window_ack_size > 0
                /\ bytes_received' - last_ack_sent >= window_ack_size
             THEN /\ Len(acks') = Len(acks) + 1
                  /\ SubSeq(acks', 1, Len(acks)) = acks
                  /\ IsAckOf(Last(acks'), bytes_received')
                  /\ last_ack_sent' = bytes_received'
             ELSE /\ acks' = acks
                  /\ last_ack_sent' = last_ack_sent ]_vars

\* one call has returned an acknowledgement and a later one has returned none
C7_Witness ==
    /\ Len(acks) = 1
    /\ IsAckOf(acks[1], last_ack_sent)
    /\ last_ack_sent > 0
    /\ bytes_received > last_ack_sent

\* the running total after the first call that brings it to w or more (0 when
\* none does)
RECURSIVE FirstReached(_, _, _)
FirstReached(counts, total, w) ==
    IF counts = <<>> THEN 0
    ELSE IF total + Head(counts) >= w THEN total + Head(counts)
    ELSE FirstReached(Tail(counts), total + Head(counts), w)

\* C8 as claimed: on a fresh handler (window 2,500,000), whatever the calls of
\* track_bytes that total 3,000,000, exactly one acknowledgement is returned,
\* it carries 3,000,000 and last_ack_sent = 3,000,000.
C8_AsClaimed ==
    (~windowSet /\ bytes_received = 3000000) =>
        /\ Len(acks) = 1
        /\ IsAckOf(acks[1], 3000000)
        /\ last_ack_sent = 3000000

\* C8 amended: exactly one acknowledgement is returned; it carries the running
\* total of the first call that brought the bytes received to 2,500,000 or
\* more, and last_ack_sent is that running total.
C8_WindowScenario ==
    (~windowSet /\ bytes_received = 3000000) =>
        /\ Len(acks) = 1
        /\ IsAckOf(acks[1], last_ack_sent)
        /\ last_ack_sent = FirstReached(tracked, 0, DefaultWindowAckSize)
        /\ last_ack_sent >= DefaultWindowAckSize
        /\ (last_ack_sent = 3000000 <=>
                bytes_received - Last(tracked) < DefaultWindowAckSize)

\* 3,000,000 bytes tracked in several calls, the window reached before the last
C8_Witness ==
    /\ ~windowSet
    /\ bytes_received = 3000000
    /\ Len(tracked) >= 2
    /\ Len(acks) = 1
    /\ last_ack_sent < 3000000

\* C35: last_ack_sent never exceeds bytes_received, and right after a
\* track_bytes call made with window_ack_size > 0 the bytes not yet
\* acknowledged, bytes_received - last_ack_sent, are fewer than
\* window_ack_size -- also after the peer has lowered window_ack_size.
C35_AckPacing ==
    /\ [](last_ack_sent <= bytes_received)
    /\ [][(tracked' # tracked /\ window_ack_size > 0)
             => bytes_received' - last_ack_sent' < window_ack_size]_vars

\* the peer has lowered the window below the bytes not yet acknowledged, and
\* the next call of track_bytes has acknowledged them all
C35_Witness ==
    /\ windowSet
    /\ window_ack_size = 500000
    /\ tracked = <<2499999, 1>>
    /\ Len(acks) = 1
    /\ last_ack_sent = bytes_received
    /\ bytes_received = 2500000

----------------------------------------------------------------------------
(* The reader fed from a socket: each read delivers some of the bytes on    *)
(* the wire, extend() appends them, read_messages() loops try_read_chunk.   *)

\* ChunkReader::new(), set to the chunk size the peer uses
InitChunk ==
    /\ \E setup \in PeerSetups :
           /\ script \in PeerScripts(setup.cs)
           /\ max_chunk_size = setup.chunk
    /\ wire = PeerBytes(script, max_chunk_size)
    /\ buf = <<>>
    /\ states = NoStates
    /\ pc = "select"
    /\ emitted = <<>>
    /\ nreads = 0
    /\ lastTry = NoTry
    /\ HandlerNew
    /\ acks = <<>> /\ tracked = <<>> /\ windowSet = FALSE
    /\ ConnNew
    /\ NoCalls
    /\ MonitorNew

\* stream.read returns n bytes; chunk_reader.extend(&buf[..n]);
\* chunk_reader.read_messages()
Feed(n) ==
    /\ pc = "select"
    /\ nreads < MaxReads
    /\ n \in 1..Len(wire)
    /\ \E r \in {ReadMessages(buf \o Take(wire, n), states, max_chunk_size)} :
           /\ buf' = r.buf
           /\ states' = r.states
           /\ emitted' = emitted \o r.messages
           /\ lastTry' = [stage |-> r.stage, pre |-> r.pre]
    /\ wire' = Drop(wire, n)
    /\ nreads' = nreads + 1
    /\ UNCHANGED <<script, max_chunk_size, pc, handlerVars, ackVars, connVars, callVars,
                   monitorVars>>

NextChunk == \E n \in 1..Len(wire) : Feed(n)

SpecChunk == InitChunk /\ [][NextChunk]_vars

----------------------------------------------------------------------------
(* What the peer's script means by the RTMP conventions *)

\* the peer repeats no extended timestamp in continuation chunks
PlainFraming(sc) == \A k \in 1..Len(sc) : ~sc[k].extCont

\* the delta in force after the k-th message: 0 after fmt 0, the delta sent
\* with fmt 1 and 2, the previous one with fmt 3
RECURSIVE PeerDelta(_, _)
PeerDelta(sc, k) ==
    IF k = 0 THEN U32Zero
    ELSE CASE sc[k].fmt = 0 -> U32Zero
           [] sc[k].fmt \in {1, 2} -> sc[k].ts
           [] sc[k].fmt = 3 -> PeerDelta(sc, k - 1)

\* the timestamp of the k-th message: absolute with fmt 0, the previous
\* timestamp plus the delta otherwise
RECURSIVE PeerTimestamp(_, _)
PeerTimestamp(sc, k) ==
    IF k = 0 THEN U32Zero
    ELSE IF sc[k].fmt = 0 THEN sc[k].ts
    ELSE WrappingAdd(PeerTimestamp(sc, k - 1), PeerDelta(sc, k))

----------------------------------------------------------------------------
(* Claims about the ChunkReader, checked under SpecChunk *)

Delivered == wire = <<>>

TruncatedStages == {"basic", "header", "ext", "payload"}

\* C1: however the peer's bytes are divided into reads, the messages returned
\* are those of a single read_messages call on all the bytes.
C1_SplitIndependence ==
    Delivered =>
        emitted = ReadMessages(PeerBytes(script, max_chunk_size), NoStates,
                               max_chunk_size).messages

C5_ContinuationTimestamp ==
    (Delivered /\ nreads = 1 /\ PlainFraming(script)) =>
        /\ Len(emitted) = Len(script)
        /\ \A k \in 1..Len(script) :
               emitted[k].timestamp = PeerTimestamp(script, k)

\* C6: when the first chunk of a message carries an extended timestamp, the 4
\* bytes the peer repeats at the start of each fmt-3 continuation chunk are
\* read as an extended timestamp and are not part of the payload.
C6_ExtendedContinuation ==
    (Delivered /\ script[1].extCont) =>
        /\ Len(emitted) >= 1
        /\ emitted[1].payload = PeerPayload(1, script[1].len)

\* every message of the script is one chunk, and none is a fmt-3 chunk
SingleChunks(sc, c) ==
    \A k \in 1..Len(sc) : sc[k].fmt # 3 /\ EffLen(sc, k) <= c

\* C31: the delta of a fmt-1 or fmt-2 chunk is added once: when the chunk is
\* consumed the timestamp of its chunk stream is the timestamp before it plus
\* the delta (mod 2^32), however many read_messages calls found the chunk's
\* extended timestamp or payload incomplete before.
C31_DeltaOnce ==
    (Delivered /\ SingleChunks(script, max_chunk_size)) =>
        /\ script[1].cs \in DOMAIN states
        /\ states[script[1].cs].timestamp = PeerTimestamp(script, Len(script))

----------------------------------------------------------------------------
(* The reader fed by a peer that gives a message up after some of its       *)
(* chunks and starts the next one with a fmt-0 or fmt-1 header on the same  *)
(* chunk stream.                                                            *)

\* the chunk streams the peer sends on, and the chunk size it uses
AbandonSetups == {[cs |-> 3, chunk |-> 2], [cs |-> 64, chunk |-> 2]}

\* message m of which the peer sends the first `sent` chunks only
Abandoned(m, sent) ==
    [fmt |-> m.fmt, cs |-> m.cs, ts |-> m.ts, len |-> m.len, type_id |-> m.type_id,
     stream_id |-> m.stream_id, extCont |-> m.extCont, sent |-> sent]

\* the chunks a message of len bytes takes
ChunksOf(len, c) == IF len = 0 THEN 1 ELSE (len + c - 1) \div c

\* a message of three chunks, given up after one or two of them or sent whole
FirstMsgs(setup) ==
    {Abandoned(PeerMsg(0, setup.cs, TsSmall, 5, FALSE), sent) :
         sent \in 1..ChunksOf(5, setup.chunk)}

\* the message that follows: the same length, or a shorter one
SecondMsgs(setup) ==
    {Abandoned(PeerMsg(fmt, setup.cs, ts, len, FALSE), ChunksOf(len, setup.chunk)) :
         fmt \in {0, 1}, ts \in {TsSmall, TsExtended}, len \in {1, 3, 5}}

AbandonScripts(setup) == {<<m1, m2>> : m1 \in FirstMsgs(setup), m2 \in SecondMsgs(setup)}

\* the bytes of the chunks the peer does send
RECURSIVE AbandonBytesFrom(_, _, _)
AbandonBytesFrom(sc, k, c) ==
    IF k > Len(sc) THEN <<>>
    ELSE PeerMessage(sc[k], Take(PeerPayload(k, sc[k].len), sc[k].sent * c), c)
           \o AbandonBytesFrom(sc, k + 1, c)

InitAbandon ==
    /\ \E setup \in AbandonSetups :
           /\ script \in AbandonScripts(setup)
           /\ max_chunk_size = setup.chunk
    /\ wire = AbandonBytesFrom(script, 1, max_chunk_size)
    /\ buf = <<>>
    /\ states = NoStates
    /\ pc = "select"
    /\ emitted = <<>>
    /\ nreads = 0
    /\ lastTry = NoTry
    /\ HandlerNew
    /\ acks = <<>> /\ tracked = <<>> /\ windowSet = FALSE
    /\ ConnNew
    /\ NoCalls
    /\ MonitorNew

NextAbandon == \E n \in 1..Len(wire) : Feed(n)

SpecAbandon == InitAbandon /\ [][NextAbandon]_vars

\* the latest try_read_chunk call returned before it stored anything
CleanStages == {"new", "empty", "basic", "header"}

\* C32: in every state of the reader the accumulator of every chunk stream is
\* no longer than the stream's message_length, and a message is emitted with
\* a payload of exactly the message_length recorded for its chunk stream (seen
\* right after the chunk that completes it: the accumulator is empty and no
\* later header has been stored) -- also when a fmt-0 or fmt-1 header with
\* another message_length arrives while a message is partly accumulated.
C32_AccumulatorBound ==
    \A cs \in DOMAIN states :
        /\ Len(states[cs].buffer) <= states[cs].message_length
        /\ (/\ cs = script[1].cs
            /\ emitted # <<>>
            /\ lastTry.stage \in CleanStages
            /\ states[cs].buffer = <<>>)
               => Len(Last(emitted).payload) = states[cs].message_length

----------------------------------------------------------------------------
(* ChunkWriter::write_message on its own, and its output given to a         *)
(* ChunkReader::new() whose chunk size is set to the writer's.              *)

\* payload bytes, a byte telling its position
WriterPayload(len) == [i \in 1..len |-> i % 251]

\* one-, two- and three-byte basic headers
WriterCsIds == {2, 63, 64, 319, 320, 65599}

\* 3-byte timestamps, the marker value, and extended ones
WriterTimestamps ==
    {U32Zero, U32(255, 65534), ExtMarker, TsExtended, U32(65535, 65535)}

\* no payload, one chunk, one chunk exactly, and two and three chunks
WriterLengths ==
    {0, 1, WriterChunkSize - 1, WriterChunkSize, WriterChunkSize + 1,
     2 * WriterChunkSize, 2 * WriterChunkSize + 1}

WriterStreamIds == {PeerStreamId, U32(258, 772)}

InitWriter ==
    /\ \E cs_id \in WriterCsIds, timestamp \in WriterTimestamps,
          len \in WriterLengths, stream_id \in WriterStreamIds :
           input = [n |-> 0, op |-> "write_message", cs_id |-> cs_id,
                    timestamp |-> timestamp, type_id |-> PeerTypeId,
                    stream_id |-> stream_id, payload |-> WriterPayload(len)]
    /\ output = <<>>
    /\ max_chunk_size = WriterChunkSize
    /\ wire = <<>>
    /\ script = <<>>
    /\ buf = <<>>
    /\ states = NoStates
    /\ pc = "write"
    /\ emitted = <<>>
    /\ nreads = 0
    /\ lastTry = NoTry
    /\ HandlerNew
    /\ acks = <<>> /\ tracked = <<>> /\ windowSet = FALSE
    /\ ConnNew
    /\ MonitorNew

\* ChunkWriter::new().write_message(cs_id, timestamp, type_id, stream_id, payload)
WriteMessage ==
    /\ pc = "write"
    /\ output' = <<write_message(input.cs_id, input.timestamp, input.type_id,
                                 input.stream_id, input.payload)>>
    /\ input' = [input EXCEPT !.n = 1]
    /\ pc' = "read"
    /\ UNCHANGED <<wire, script, buf, states, max_chunk_size, emitted, nreads, lastTry,
                   handlerVars, ackVars, connVars, monitorVars>>

\* reader.extend(&bytes); reader.read_messages()
ReadBack ==
    /\ pc = "read"
    /\ \E r \in {ReadMessages(buf \o output[1], states, max_chunk_size)} :
           /\ buf' = r.buf
           /\ states' = r.states
           /\ emitted' = emitted \o r.messages
           /\ lastTry' = [stage |-> r.stage, pre |-> r.pre]
    /\ nreads' = nreads + 1
    /\ pc' = "done"
    /\ UNCHANGED <<wire, script, max_chunk_size, handlerVars, ackVars, connVars,
                   callVars, monitorVars>>

NextWriter == WriteMessage \/ ReadBack

SpecWriter == InitWriter /\ [][NextWriter]_vars

----------------------------------------------------------------------------
(* Claims about the ChunkWriter, checked under SpecWriter *)

\* C33: the bytes write_message produces for a message (cs_id >= 2, any
\* timestamp, payload of any length), given to a reader whose max_chunk_size
\* is 4096, yield exactly one RtmpMessage with the same timestamp, type_id,
\* stream_id and payload, and leave the reader's input buffer empty.
C33_WriterReaderRoundTrip ==
    pc = "done" =>
        /\ emitted = <<[timestamp |-> input.timestamp, type_id |-> input.type_id,
                        stream_id |-> input.stream_id, payload |-> input.payload]>>
        /\ buf = <<>>

\* the number of chunks of a payload of len bytes
WriterChunks(len) ==
    IF len = 0 THEN 1 ELSE (len + WriterChunkSize - 1) \div WriterChunkSize

\* the bytes of the basic header of a chunk
BasicLen(cs_id) == IF cs_id <= 63 THEN 1 ELSE IF cs_id <= 319 THEN 2 ELSE 3

\* the bytes of the extended timestamp: 4 when timestamp >= 0xFFFFFF
ExtLen(timestamp) == IF U32Ge(timestamp, ExtMarker) THEN 4 ELSE 0

\* where chunk i (0 the first) starts in the output, as an offset
ChunkStart(i, cs_id, timestamp, len) ==
    IF i = 0 THEN 0
    ELSE BasicLen(cs_id) + 11 + ExtLen(timestamp) + Min(len, WriterChunkSize)
           + (i - 1) * (BasicLen(cs_id) + ExtLen(timestamp) + WriterChunkSize)

\* the payload bytes chunk i carries
ChunkPayload(i, payload) ==
    SubSeq(payload, i * WriterChunkSize + 1, Min(Len(payload), (i + 1) * WriterChunkSize))

\* the bytes of the output from offset `from` on, n of them
Slice(bytes, from, n) == SubSeq(bytes, from + 1, from + n)

\* chunk i of the output is a basic header of format fmt on cs_id
HasBasicHeader(bytes, start, fmt, cs_id) ==
    /\ Len(bytes) >= start + BasicLen(cs_id)
    /\ Fmt(At(bytes, start)) = fmt
    /\ BasicHeader(Drop(bytes, start)) =
           [ok |-> TRUE, cs_id |-> cs_id, pos |-> BasicLen(cs_id)]

\* a continuation chunk: fmt 3 on the same cs_id, the full timestamp when it
\* is extended, then at most 4096 payload bytes
IsContinuation(bytes, i, cs_id, timestamp, payload) ==
    LET start == ChunkStart(i, cs_id, timestamp, Len(payload))
        after == start + BasicLen(cs_id)
    IN  /\ HasBasicHeader(bytes, start, 3, cs_id)
        /\ ExtLen(timestamp) = 4 => Slice(bytes, after, 4) = U32ToBE(timestamp)
        /\ Len(ChunkPayload(i, payload)) <= WriterChunkSize
        /\ Slice(bytes, after + ExtLen(timestamp), Len(ChunkPayload(i, payload)))
               = ChunkPayload(i, payload)

\* the first chunk: fmt 0, the 3-byte slot holding the timestamp or 0xFFFFFF,
\* the full timestamp after the 11-byte header when it is extended
IsFirstChunk(bytes, cs_id, timestamp, payload) ==
    LET after == BasicLen(cs_id)
    IN  /\ HasBasicHeader(bytes, 0, 0, cs_id)
        /\ Len(bytes) >= after + 11 + ExtLen(timestamp)
        /\ IF ExtLen(timestamp) = 4
           THEN /\ Slice(bytes, after, 3) = <<255, 255, 255>>
                /\ Slice(bytes, after + 11, 4) = U32ToBE(timestamp)
           ELSE U24FromBE(At(bytes, after), At(bytes, after + 1), At(bytes, after + 2))
                    = timestamp
        /\ Len(ChunkPayload(0, payload)) <= WriterChunkSize
        /\ Slice(bytes, after + 11 + ExtLen(timestamp), Len(ChunkPayload(0, payload)))
               = ChunkPayload(0, payload)

\* C34: write_message emits max(1, ceil(len / 4096)) chunks; the first has
\* fmt 0, the later ones fmt 3 on the same cs_id; each carries at most 4096
\* payload bytes; when timestamp >= 0xFFFFFF the 3-byte slot holds 0xFFFFFF and
\* the 4 big-endian bytes of the timestamp follow the fmt-0 header and the
\* basic header of every fmt-3 chunk.
C34_WriterFraming ==
    pc # "write" =>
        /\ IsFirstChunk(output[1], input.cs_id, input.timestamp, input.payload)
        /\ \A i \in 1..(WriterChunks(Len(input.payload)) - 1) :
               IsContinuation(output[1], i, input.cs_id, input.timestamp, input.payload)
        /\ Len(output[1]) =
               BasicLen(input.cs_id) + 11 + ExtLen(input.timestamp) + Len(input.payload)
                 + (WriterChunks(Len(input.payload)) - 1)
                       * (BasicLen(input.cs_id) + ExtLen(input.timestamp))

\* three chunks written with an extended timestamp equal to the marker
C34_Witness ==
    /\ pc = "read"
    /\ input.timestamp = ExtMarker
    /\ input.cs_id = 320
    /\ Len(input.payload) = 2 * WriterChunkSize + 1
    /\ Len(output[1]) = 3 + 11 + 4 + 2 * (3 + 4) + 2 * WriterChunkSize + 1

----------------------------------------------------------------------------
(* The connection task (src/connection.rs, handle_connection after the      *)
(* handshake).  One action per piece of the loop between two awaits.        *)

\* a message of the peer: one fmt-0 chunk and fmt-3 continuations
ConnMsg(cs, type_id, stream_id, payload) ==
    [fmt |-> 0, cs |-> cs, ts |-> TsSmall, len |-> Len(payload), type_id |-> type_id,
     stream_id |-> stream_id, extCont |-> FALSE, payload |-> payload]

\* what the peer may send: Set Chunk Size 2, Window Ack Size 16, three video
\* messages (an AVC keyframe: NALU packet, composition time 0; an AVC sequence
\* header without parameter sets; a generated keyframe, frame type 4) and
\* three commands
Peer ==
    [ set_chunk_size |-> ConnMsg(2, 1, U32Zero, U32BytesOfNat(2)),
      window_ack_size |-> ConnMsg(2, 5, U32Zero, U32BytesOfNat(16)),
      video |-> ConnMsg(4, 9, PeerStreamId, <<23, 1, 0, 0, 0>>),
      video_seq_header |-> ConnMsg(4, 9, PeerStreamId, <<23, 0, 0, 0, 0>>),
      video_generated |-> ConnMsg(4, 9, PeerStreamId, <<71, 1, 0, 0, 0>>),
      connect |->
          ConnMsg(3, 20, U32Zero,
                  write_string(Str.connect) \o write_number(F64.one)
                      \o write_object(<< <<Str.app, Amf0("String", Str.live)>> >>)),
      publish |->
          ConnMsg(3, 20, PeerStreamId,
                  write_string(Str.publish) \o write_number(F64.zero) \o write_null
                      \o write_string(Str.key) \o write_string(Str.live)),
      fc_unpublish |->
          ConnMsg(3, 20, U32Zero,
                  write_string(Str.FCUnpublish) \o write_number(F64.zero)
                      \o write_null \o write_string(Str.key)) ]

ConnMsgs == {Peer[f] : f \in DOMAIN Peer}

RECURSIVE ConnScriptsOfLen(_)
ConnScriptsOfLen(n) ==
    IF n = 0 THEN {<<>>}
    ELSE {Append(sc, m) : sc \in ConnScriptsOfLen(n - 1), m \in ConnMsgs}

ConnScripts == UNION {ConnScriptsOfLen(n) : n \in 1..MaxConnMsgs}

\* the chunk size the peer uses after sending m with chunk size c: it applies
\* its own Set Chunk Size to everything it sends next
PeerChunkAfter(m, c) ==
    IF m.type_id = 1 /\ Len(m.payload) >= 4 THEN NatOfBE(m.payload) ELSE c

\* the bytes of the script from message k on, the peer chunking with c
RECURSIVE ConnBytesFrom(_, _, _)
ConnBytesFrom(sc, k, c) ==
    IF k > Len(sc) THEN <<>>
    ELSE PeerMessage(sc[k], sc[k].payload, c)
           \o ConnBytesFrom(sc, k + 1, PeerChunkAfter(sc[k], c))

ConnBytes(sc) == ConnBytesFrom(sc, 1, DefaultChunkSize)

\* how many bytes are still to come when a read may end: at the end of a
\* message or one byte before it
RECURSIVE ReadCutsFrom(_, _, _)
ReadCutsFrom(sc, k, c) ==
    IF k > Len(sc) THEN {0}
    ELSE {Len(ConnBytesFrom(sc, k + 1, PeerChunkAfter(sc[k], c))) + d : d \in {0, 1}}
           \cup ReadCutsFrom(sc, k + 1, PeerChunkAfter(sc[k], c))

\* the sizes stream.read may return
ReadSizes ==
    {Len(wire) - r :
        r \in {x \in ReadCutsFrom(script, 1, DefaultChunkSize) : x < Len(wire)}}

LogEntry(op, data, ok) == [op |-> op, data |-> data, ok |-> ok]

\* read_messages as ReadMessages runs it, noting for every chunk consumed the
\* chunk size it was parsed with and the one the peer had announced by then
RECURSIVE ChunkSizesUsed(_, _, _, _)
RECURSIVE ChunkSizesAfter(_, _, _)

ChunkSizesAfter(mcs, ann, r) ==
    IF ~r.some THEN [parsed |-> <<>>, announced |-> ann]
    ELSE [ChunkSizesUsed(r.buf, r.states, mcs,
                         IF r.msg # <<>> THEN PeerChunkAfter(r.msg[1], ann) ELSE ann)
             EXCEPT !.parsed = <<[used |-> mcs, announced |-> ann]>> \o @]

ChunkSizesUsed(b, sts, mcs, ann) ==
    ChunkSizesAfter(mcs, ann, TryReadChunk(b, sts, mcs))

\* handle_connection up to the loop: everything new, the bytes that followed
\* C2 in the handshake already given to extend()
InitConn ==
    /\ script \in ConnScripts
    /\ \E k \in {0, Len(PeerMessage(script[1], script[1].payload, DefaultChunkSize)) - 1} :
           /\ buf = Take(ConnBytes(script), k)
           /\ wire = Drop(ConnBytes(script), k)
    /\ states = NoStates
    /\ max_chunk_size = DefaultChunkSize
    /\ pc = "select"
    /\ emitted = <<>>
    /\ nreads = 0
    /\ lastTry = NoTry
    /\ HandlerNew
    /\ acks = <<>> /\ tracked = <<>> /\ windowSet = FALSE
    /\ ConnNew
    /\ NoCalls
    /\ MonitorNew

\* chunk_reader.extend(data); let messages = chunk_reader.read_messages();
\* and the entry of `for msg in messages`
ExtendAndRead(data) ==
    /\ \E r \in {ReadMessages(buf \o data, states, max_chunk_size)} :
           /\ buf' = r.buf
           /\ states' = r.states
           /\ emitted' = emitted \o r.messages
           /\ lastTry' = [stage |-> r.stage, pre |-> r.pre]
           /\ batch' = r.messages
           /\ pc' = IF r.messages = <<>> THEN "select" ELSE "for"
    /\ \E t \in {ChunkSizesUsed(buf \o data, states, max_chunk_size, announced)} :
           /\ parsed' = parsed \o t.parsed
           /\ announced' = t.announced

\* Ok(n): track_bytes(n), then either the await of the acknowledgement write
\* or straight on to extend and read_messages
SocketRead(n, delay) ==
    /\ pc = "select"
    /\ nreads < MaxConnReads
    /\ n \in ReadSizes
    /\ clock' = clock + delay
    /\ wire' = Drop(wire, n)
    /\ nreads' = nreads + 1
    /\ bytes_received' = bytes_received + n
    /\ tracked' = Append(tracked, n)
    /\ log' = Append(log, LogEntry("read", <<>>, TRUE))
    /\ IF AckDue(window_ack_size, bytes_received + n, last_ack_sent)
       THEN /\ last_ack_sent' = bytes_received + n
            /\ acks' = Append(acks, AckMessage(bytes_received + n))
            /\ ack_data' = AckMessage(bytes_received + n)
            /\ read_buf' = Take(wire, n)
            /\ pc' = "ack"
            /\ UNCHANGED <<buf, states, emitted, lastTry, batch, parsed, announced>>
       ELSE /\ ExtendAndRead(Take(wire, n))
            /\ UNCHANGED <<last_ack_sent, acks, ack_data, read_buf>>
    /\ UNCHANGED <<script, max_chunk_size, app_name, stream_key, window_ack_size,
                   windowSet, responses, event, publishing, rendered, handled,
                   video_analyzer, callVars, audio_analyzer, stats, diagnostics,
                   encoder_name, handshake>>

\* let _ = stream.write_all(&ack_data).await;  then extend and read_messages
WriteAck(ok) ==
    /\ pc = "ack"
    /\ log' = Append(log, LogEntry("ack", <<ack_data>>, ok))
    /\ ack_data' = <<>>
    /\ read_buf' = <<>>
    /\ ExtendAndRead(read_buf)
    /\ UNCHANGED <<wire, script, max_chunk_size, nreads, handlerVars, ackVars,
                   responses, event, publishing, rendered, handled, video_analyzer,
                   callVars, monitorVars>>

IsEvent(ev, kind) == ev # <<>> /\ ev[1].kind = kind

\* the property names the Metadata branch looks at
MetadataKeys ==
    [ encoder |-> {<<101, 110, 99, 111, 100, 101, 114>>},
      dims |-> {<<119, 105, 100, 116, 104>>,
                <<104, 101, 105, 103, 104, 116>>},
      fps |-> {<<102, 114, 97, 109, 101, 114, 97, 116, 101>>,
               <<102, 112, 115>>},
      bitrate |-> {<<118, 105, 100, 101, 111, 100, 97, 116, 97, 114, 97, 116, 101>>,
                   <<97, 117, 100, 105, 111, 100, 97, 116, 97, 114, 97, 116, 101>>} ]

HasKey(properties, keys) == \E i \in 1..Len(properties) : properties[i][1] \in keys

\* encoder_name after the loop over the properties from the i-th on
RECURSIVE EncoderNameFrom(_, _, _)
EncoderNameFrom(properties, i, name) ==
    IF i > Len(properties) THEN name
    ELSE EncoderNameFrom(properties, i + 1,
                         IF properties[i][1] \in MetadataKeys.encoder
                               /\ as_str(properties[i][2]) # <<>>
                         THEN as_str(properties[i][2]) ELSE name)

\* !data.is_empty() && ((data[0] >> 4) & 0x0F) == 1
IsKeyframe(data) == data # <<>> /\ data[1] \div 16 = 1

\* data.len() >= 2 && codec_id == 7 && data[1] == 0
IsAvcSeqHeader(data) == Len(data) >= 2 /\ data[1] % 16 = 7 /\ data[2] = 0

\* data.len() >= 5 && (data[0] & 0x0F) == 7 && data[1] == 1 && cto != 0
HasCompositionOffset(data) ==
    /\ Len(data) >= 5 /\ data[1] % 16 = 7 /\ data[2] = 1
    /\ <<data[3], data[4], data[5]>> # <<0, 0, 0>>

\* data.len() >= 2 && ((data[0] >> 4) & 0x0F) == 10 && data[1] == 0
IsAacSeqHeader(data) == Len(data) >= 2 /\ data[1] \div 16 = 10 /\ data[2] = 0

\* the calls on diagnostics of the VideoData branch, in their order;
\* record_keyframe is given the interval stats holds before this frame
DiagnosticsAfterVideo(d, s, now, ts, data) ==
    Let([d1 \in {record_video_timestamp(d, ts)} |->
    Let([d2 \in {IF IsAvcSeqHeader(data) THEN record_avc_seq_header(d1, now) ELSE d1} |->
    Let([d3 \in {IF IsKeyframe(data) THEN record_keyframe(d2, now, s.keyframe_interval_secs) ELSE d2} |-> IF HasCompositionOffset(data) THEN record_b_frame(d3) ELSE d3])])])

\* the calls on diagnostics of the AudioData branch
DiagnosticsAfterAudio(d, now, ts, data) ==
    Let([d1 \in {record_audio_timestamp(d, ts)} |->
         IF IsAacSeqHeader(data) THEN record_aac_seq_header(d1, now) ELSE d1])

\* "Handle events" for one message and the step of the for loop after it
\* (StreamEnded breaks out of the for loop). Instant::now() is taken to
\* return the same instant throughout one read batch.
HandleEvent(ev, rest) ==
    /\ diagnostics' =
           IF IsEvent(ev, "Publishing") THEN record_stream_start(diagnostics, clock)
           ELSE IF IsEvent(ev, "Metadata")
           THEN record_metadata(diagnostics, HasKey(ev[1].properties, MetadataKeys.dims),
                                HasKey(ev[1].properties, MetadataKeys.fps),
                                HasKey(ev[1].properties, MetadataKeys.bitrate))
           ELSE IF IsEvent(ev, "VideoData")
           THEN DiagnosticsAfterVideo(diagnostics, stats, clock, ev[1].timestamp, ev[1].data)
           ELSE IF IsEvent(ev, "AudioData")
           THEN DiagnosticsAfterAudio(diagnostics, clock, ev[1].timestamp, ev[1].data)
           ELSE diagnostics
    /\ stats' =
           IF IsEvent(ev, "VideoData")
           THEN record_video_frame(stats, clock, Len(ev[1].data), IsKeyframe(ev[1].data))
           ELSE IF IsEvent(ev, "AudioData") /\ ~IsAacSeqHeader(ev[1].data)
           THEN record_audio_frame(stats, clock, Len(ev[1].data))
           ELSE stats
    /\ audio_analyzer' = IF IsEvent(ev, "AudioData")
                         THEN audio_process(audio_analyzer, ev[1].data)
                         ELSE audio_analyzer
    /\ encoder_name' = IF IsEvent(ev, "Metadata")
                       THEN EncoderNameFrom(ev[1].properties, 1, encoder_name)
                       ELSE encoder_name
    /\ publishing' = IF IsEvent(ev, "Publishing") THEN TRUE
                     ELSE IF IsEvent(ev, "StreamEnded") THEN FALSE
                     ELSE publishing
    /\ batch' = IF IsEvent(ev, "StreamEnded") THEN <<>> ELSE rest
    /\ pc' = IF IsEvent(ev, "StreamEnded") \/ rest = <<>> THEN "select" ELSE "for"
    /\ event' = <<>>
    /\ handled' = Append(handled, IF ev = <<>> THEN "None" ELSE ev[1].kind)
    /\ video_analyzer' = IF IsEvent(ev, "VideoData")
                        THEN process(video_analyzer, ev[1].data)
                        ELSE video_analyzer

\* (mutant) the responses are written last first
NextResponseLast(rs) == Last(rs)

\* for response in &result.responses: the response written next
NextResponse(rs) == Head(rs)

\* let result = handler.handle(msg); the chunk size change; then the first
\* response write is awaited, or the event is handled
HandleMessage ==
    /\ pc = "for"
    /\ batch # <<>>
    /\ \E r \in {handle(HandlerState, Head(batch))} :
           /\ app_name' = r.handler.app_name
           /\ stream_key' = r.handler.stream_key
           /\ window_ack_size' = r.handler.window_ack_size
           /\ max_chunk_size' = IF r.new_chunk_size # <<>> THEN r.new_chunk_size[1]
                                ELSE max_chunk_size
           /\ log' = Append(log, LogEntry("handle", r.responses, TRUE))
           /\ responses' = r.responses
           /\ IF r.responses # <<>>
              THEN /\ event' = r.event
                   /\ batch' = Tail(batch)
                   /\ pc' = "write"
                   /\ UNCHANGED <<publishing, handled, video_analyzer, audio_analyzer,
                                  stats, diagnostics, encoder_name>>
              ELSE HandleEvent(r.event, Tail(batch))
    /\ windowSet' = (windowSet \/ Head(batch).type_id = 5)
    /\ UNCHANGED <<wire, script, buf, states, emitted, nreads, lastTry, bytes_received,
                   last_ack_sent, acks, tracked, read_buf, ack_data, parsed, announced,
                   rendered, callVars, clock, handshake>>

\* stream.write_all(response).await: an error ends the task, after the last
\* response the event is handled
WriteResponse(ok) ==
    /\ pc = "write"
    /\ log' = Append(log, LogEntry("write", <<NextResponse(responses)>>, ok))
    /\ IF ~ok
       THEN /\ pc' = "returned"
            /\ UNCHANGED <<responses, event, batch, publishing, handled, video_analyzer,
                           audio_analyzer, stats, diagnostics, encoder_name>>
       ELSE /\ responses' = Tail(responses)
            /\ IF Tail(responses) = <<>>
               THEN HandleEvent(event, batch)
               ELSE UNCHANGED <<event, batch, publishing, pc, handled, video_analyzer,
                                audio_analyzer, stats, diagnostics, encoder_name>>
    /\ UNCHANGED <<wire, script, buf, states, max_chunk_size, emitted, nreads, lastTry,
                   handlerVars, ackVars, read_buf, ack_data, parsed, announced, rendered,
                   callVars, clock, handshake>>

\* Ok(0): the peer has closed, everything it sent has been read
SocketClosed ==
    /\ pc = "select"
    /\ wire = <<>>
    /\ pc' = "ended"
    /\ UNCHANGED <<wire, script, buf, states, max_chunk_size, emitted, nreads, lastTry,
                   handlerVars, ackVars, connVars, callVars, monitorVars>>

\* Err(_)
SocketError ==
    /\ pc = "select"
    /\ pc' = "ended"
    /\ UNCHANGED <<wire, script, buf, states, max_chunk_size, emitted, nreads, lastTry,
                   handlerVars, ackVars, connVars, callVars, monitorVars>>

\* the period of display_interval, in milliseconds
TickMillis == 1000

\* the time that passes before a socket read returns, in milliseconds
ReadDelays == {1500}

\* display_interval.tick(): check_all and render while publishing; the check
\* is made a period after the last Instant::now()
Tick ==
    /\ pc = "select"
    /\ rendered < MaxTicks
    /\ rendered' = IF publishing THEN rendered + 1 ELSE rendered
    /\ clock' = IF publishing THEN clock + TickMillis ELSE clock
    /\ diagnostics' =
           IF publishing
           THEN check_all(diagnostics, clock + TickMillis,
                          CheckArgs(video_analyzer.width, video_analyzer.height,
                                    video_analyzer.profile,
                                    effective_sample_rate(audio_analyzer),
                                    effective_channels(audio_analyzer),
                                    audio_analyzer.aac_profile, stats.keyframe_interval_secs))
           ELSE diagnostics
    /\ UNCHANGED <<chunkVars, handlerVars, ackVars, read_buf, ack_data, batch,
                   responses, event, publishing, log, parsed, announced, handled,
                   video_analyzer, callVars, audio_analyzer, stats, encoder_name, handshake>>

NextConn ==
    \/ \E n \in 1..Len(wire), delay \in ReadDelays : SocketRead(n, delay)
    \/ \E ok \in BOOLEAN : WriteAck(ok)
    \/ HandleMessage
    \/ \E ok \in BOOLEAN : WriteResponse(ok)
    \/ SocketClosed
    \/ SocketError
    \/ Tick

SpecConn == InitConn /\ [][NextConn]_vars

----------------------------------------------------------------------------
(* Claims about the connection task, checked under SpecConn *)

\* C3: once the peer's Set Chunk Size carrying n has been received, every
\* chunk that follows it in the byte stream is parsed with max_chunk_size = n,
\* chunks of the same socket read included, and no chunk before it is: every
\* chunk is parsed with the size the peer had announced last.
C3_ChunkSizeApplies ==
    \A i \in 1..Len(parsed) : parsed[i].used = parsed[i].announced

\* C9: after a write of an acknowledgement or of a response has returned an
\* error, the task handles no message and performs no read and no write.
C9_WriteErrorTerminates ==
    \A i \in 1..Len(log) :
        (log[i].op \in {"ack", "write"} /\ ~log[i].ok) => i = Len(log)

\* two messages handled one after the other in the same read batch
ConsecutiveInBatch(i, j) ==
    /\ i < j
    /\ log[i].op = "handle"
    /\ log[j].op = "handle"
    /\ \A k \in (i + 1)..(j - 1) : log[k].op \notin {"handle", "read"}

\* C10: within one read batch, when m2 is passed to handle right after m1,
\* every response handle queued for m1 has been written to the socket, in the
\* order queued, and nothing else has.
C10_ResponsesBeforeNext ==
    \A i, j \in 1..Len(log) :
        ConsecutiveInBatch(i, j) =>
            /\ j - i - 1 = Len(log[i].data)
            /\ \A k \in 1..Len(log[i].data) :
                   log[i + k] = LogEntry("write", <<log[i].data[k]>>, TRUE)

\* a message with several responses (connect, publish) has been handled, its
\* responses written, and the next message of the batch handled
C10_Witness ==
    \E i, j \in 1..Len(log) :
        /\ ConsecutiveInBatch(i, j)
        /\ Len(log[i].data) >= 2
        /\ j = i + Len(log[i].data) + 1

\* C12: once FCUnpublish or deleteStream has raised StreamEnded, the task
\* handles no further message of the peer, neither the rest of the read batch
\* nor messages of later reads, and updates no analyzer afterwards: the
\* StreamEnded event is the last thing the "Handle events" step ever sees.
C12_StreamEndedTerminal ==
    \A i \in 1..Len(handled) : handled[i] = "StreamEnded" => i = Len(handled)

\* the messages reassembled from the socket reads so far that the for loop
\* has not handled
Pending == Len(emitted) - Len(handled)

\* C26: a timer tick is never handled in the middle of a read batch: every
\* message reassembled from one socket read has been handled to completion
\* (responses written, analyzers, stats and diagnostics updated) before the
\* next socket read or tick is handled.
\* (A socket read shows as nreads growing or, when it returns 0 or an error, as
\* the task ending; a tick that checks and renders as rendered growing.)
C26_BatchBeforeNext ==
    [][(nreads' # nreads \/ rendered' # rendered \/ pc' = "ended")
          => (pc = "select" /\ responses = <<>> /\ event = <<>> /\ Pending = 0)]_vars

\* C36: when the loop handles a keyframe, the interval it appends to
\* diagnostics.keyframe_intervals is the gap between this keyframe and the one
\* before it, the value StreamStats computes for the same message: once stats
\* holds an interval (from the second keyframe on) the list is not empty and
\* its last value is that interval.
C36_KeyframeIntervalFresh ==
    stats.keyframe_interval_secs # <<>> =>
        /\ diagnostics.keyframe_intervals # <<>>
        /\ Last(diagnostics.keyframe_intervals) = stats.keyframe_interval_secs[1]

\* C37: the loop reports a video message as a keyframe to diagnostics
\* (record_keyframe) and to StreamStats (is_keyframe) exactly when
\* VideoAnalyzer::process counts it in keyframe_count; an AVC sequence header is
\* not reported, a generated keyframe is.  Seen in the state: a keyframe has
\* been reported to either exactly when one has been counted.
C37_KeyframeConsistency ==
    /\ diagnostics.first_keyframe_time # <<>> <=> video_analyzer.keyframe_count > 0
    /\ stats.last_keyframe_time # <<>> <=> video_analyzer.keyframe_count > 0

\* C39: on a connection a Publishing event is raised, and publishing starts,
\* only after a Connected event has been raised: a publish command received
\* before connect does not start publishing.
C39_PublishAfterConnect ==
    /\ \A i \in 1..Len(handled) :
           handled[i] = "Publishing" => \E j \in 1..(i - 1) : handled[j] = "Connected"
    /\ publishing => \E j \in 1..Len(handled) : handled[j] = "Connected"

----------------------------------------------------------------------------
(* MessageHandler::handle called on messages of every kind the peer may     *)
(* send, one call after the other on the same handler.                      *)

MaxHandled == 2       \* calls of handle

\* numbers the peer sends: -1.0, 2.0 and a NaN
PeerF64 ==
    [ minus_one |-> <<191, 240, 0, 0, 0, 0, 0, 0>>,
      two |-> <<64, 0, 0, 0, 0, 0, 0, 0>>,
      nan |-> <<127, 248, 0, 0, 0, 0, 0, 0>> ]

\* a reassembled message as read_messages returns it
PeerMessageOf(type_id, stream_id, payload) ==
    [timestamp |-> TsSmall, type_id |-> type_id, stream_id |-> stream_id,
     payload |-> payload]

\* an AMF0 command (type 20) and an AMF0 data message (type 18) of the values
Command(stream_id, values) == PeerMessageOf(20, stream_id, write_items(values))

Data(values) == PeerMessageOf(18, PeerStreamId, write_items(values))

\* the bytes of an EcmaArray with the count field as given
EcmaBytes(count, pairs) == <<8>> \o count \o write_pairs(pairs) \o <<0, 0, 9>>

PeerObject == Amf0("Object", << <<Str.mode, Amf0("Number", F64.one)>>,
                                 <<Str.app, Amf0("String", Str.key)>>,
                                 <<Str.app, Amf0("String", Str.status)>> >>)

PeerMeta == Amf0("Object", << <<Str.level, Amf0("Number", PeerF64.two)>> >>)

ConnectCommands ==
    { Command(U32Zero, <<Amf0("String", Str.connect), Amf0("Number", F64.one),
                         Amf0("Object", << <<Str.app, Amf0("String", Str.live)>> >>)>>),
      Command(U32Zero, <<Amf0("String", Str.connect), Amf0("Number", PeerF64.two),
                         PeerObject>>),
      Command(U32Zero, <<Amf0("String", Str.connect), Amf0("Number", F64.one),
                         Amf0("Object", << <<Str.app, Amf0("Number", F64.one)>> >>)>>),
      Command(U32Zero, <<Amf0("String", Str.connect), Amf0("Number", F64.one),
                         Amf0("Null", <<>>)>>),
      PeerMessageOf(20, U32Zero,
          write_string(Str.connect) \o write_number(F64.one)
              \o EcmaBytes(<<0, 0, 0, 0>>, << <<Str.app, Amf0("String", Str.code)>> >>)),
      Command(U32Zero, <<Amf0("String", Str.connect)>>) }

PublishCommands ==
    { Command(PeerStreamId, <<Amf0("String", Str.publish), Amf0("Number", F64.zero),
                              Amf0("Null", <<>>), Amf0("String", Str.key),
                              Amf0("String", Str.live)>>),
      Command(U32(1, 2), <<Amf0("String", Str.publish), Amf0("Number", PeerF64.two),
                           Amf0("Null", <<>>), Amf0("String", Str.live)>>),
      Command(PeerStreamId, <<Amf0("String", Str.publish), Amf0("Number", F64.zero),
                              Amf0("Null", <<>>), Amf0("Number", F64.one)>>),
      Command(U32Zero, <<Amf0("String", Str.publish), Amf0("Number", F64.zero)>>) }

\* the transaction ids a command may carry: none, a number, something else
PeerTransactions ==
    { <<>>, <<Amf0("Number", F64.zero)>>, <<Amf0("Number", F64.one)>>,
      <<Amf0("Number", F64.thirty_one)>>, <<Amf0("Number", PeerF64.minus_one)>>,
      <<Amf0("Number", PeerF64.nan)>>, <<Amf0("String", Str.key)>> }

\* the other commands: every name the handler knows and one it does not
\* (Str.key), a command whose first value is no string, and an empty payload
NamedCommands ==
    { Command(U32Zero, <<Amf0("String", name)>> \o txn \o <<Amf0("Null", <<>>)>>) :
        name \in {Str.releaseStream, Str.FCPublish, Str.createStream, Str.FCUnpublish,
                  Str.deleteStream, Str.checkbw, Str.result, Str.error, Str.onStatus,
                  Str.key},
        txn \in PeerTransactions }
      \cup { Command(U32Zero, <<Amf0("Null", <<>>), Amf0("Number", F64.one)>>),
             Command(U32Zero, <<Amf0("Number", F64.one), Amf0("Number", F64.one)>>),
             Command(U32Zero, <<>>) }

DataMessages ==
    { Data(<<Amf0("String", Str.setDataFrame), Amf0("String", Str.onMetaData), PeerMeta>>),
      Data(<<Amf0("String", Str.onMetaData), PeerMeta>>),
      Data(<<Amf0("String", Str.setDataFrame), PeerMeta>>),
      Data(<<Amf0("String", Str.setDataFrame), PeerMeta, PeerObject>>),
      Data(<<Amf0("String", Str.setDataFrame), PeerMeta, Amf0("String", Str.key)>>),
      Data(<<Amf0("String", Str.setDataFrame), Amf0("String", Str.onMetaData),
             Amf0("Number", F64.one), PeerMeta>>),
      Data(<<Amf0("String", Str.onMetaData), Amf0("Number", F64.one), PeerMeta>>),
      Data(<<Amf0("String", Str.key), PeerMeta>>),
      Data(<<Amf0("String", Str.onMetaData)>>),
      PeerMessageOf(18, PeerStreamId,
          write_string(Str.onMetaData)
              \o EcmaBytes(<<0, 0, 0, 1>>, << <<Str.level, Amf0("Number", F64.one)>> >>)) }

\* protocol control, user control (ping and another event), audio, video and
\* a type the handler does not know
ControlMessages ==
    { PeerMessageOf(1, U32Zero, U32BytesOfNat(2)),
      PeerMessageOf(3, U32Zero, U32BytesOfNat(16)),
      PeerMessageOf(4, U32Zero, <<0, 6, 1, 2, 3, 4>>),
      PeerMessageOf(4, U32Zero, <<0, 3, 0, 0, 0, 1>>),
      PeerMessageOf(5, U32Zero, U32BytesOfNat(16)),
      PeerMessageOf(6, U32Zero, U32BytesOfNat(16) \o <<2>>),
      PeerMessageOf(8, PeerStreamId, <<175, 1, 0>>),
      PeerMessageOf(9, PeerStreamId, <<23, 1, 0, 0, 0>>),
      PeerMessageOf(15, PeerStreamId, <<0>>) }

HandleMsgs ==
    ConnectCommands \cup PublishCommands \cup NamedCommands \cup DataMessages
        \cup ControlMessages

\* MessageHandler::new, and everything around it as it starts
InitHandle ==
    /\ HandlerNew
    /\ acks = <<>> /\ tracked = <<>> /\ windowSet = FALSE
    /\ wire = <<>> /\ script = <<>> /\ buf = <<>> /\ states = NoStates
    /\ max_chunk_size = DefaultChunkSize /\ pc = "select" /\ emitted = <<>>
    /\ nreads = 0 /\ lastTry = NoTry
    /\ ConnNew
    /\ NoCalls
    /\ MonitorNew

\* handler.handle(msg)
Handle(msg) ==
    /\ input.n < MaxHandled
    /\ \E r \in {handle(HandlerState, msg)} :
           /\ app_name' = r.handler.app_name
           /\ stream_key' = r.handler.stream_key
           /\ window_ack_size' = r.handler.window_ack_size
           /\ output' = r
    /\ input' = [n |-> input.n + 1, handler |-> HandlerState, msg |-> msg]
    /\ UNCHANGED <<bytes_received, last_ack_sent, chunkVars, ackVars, connVars, monitorVars>>

NextHandle == \E msg \in HandleMsgs : Handle(msg)

SpecHandle == InitHandle /\ [][NextHandle]_vars

----------------------------------------------------------------------------
(* Claims about handle, checked under SpecHandle *)

\* a response as the peer's chunk reader reassembles it
Sent(response) == ReadMessages(response, NoStates, WriterChunkSize)

\* r is one complete message on chunk stream cs_id, timestamp 0
IsMessageOn(r, cs_id, type_id, stream_id) ==
    /\ r.buf = <<>>
    /\ DOMAIN r.states = {cs_id}
    /\ Len(r.messages) = 1
    /\ r.messages[1].timestamp = U32Zero
    /\ r.messages[1].type_id = type_id
    /\ r.messages[1].stream_id = stream_id

PayloadOf(response) == Sent(response).messages[1].payload

\* the latest call handled an AMF0 command of this name
Called(name) ==
    /\ input.n > 0
    /\ input.msg.type_id = 20
    /\ decode_all(input.msg.payload) # <<>>
    /\ decode_all(input.msg.payload)[1] = Amf0("String", name)

\* the value of the first property named key of the k-th value, if there is one
PropertyOf(values, k, key) ==
    IF /\ Len(values) >= k
       /\ values[k].t \in {"Object", "EcmaArray"}
       /\ \E i \in 1..Len(values[k].v) : values[k].v[i][1] = key
    THEN <<values[k].v[CHOOSE i \in 1..Len(values[k].v) :
                          /\ values[k].v[i][1] = key
                          /\ \A j \in 1..(i - 1) : values[k].v[j][1] # key][2]>>
    ELSE <<>>

\* an optional value that is there and is a String
IsString(opt) == opt # <<>> /\ opt[1].t = "String"

\* the number a command carries as its second value, 0.0 when it carries none
TxnOf(values) ==
    IF Len(values) >= 2 /\ values[2].t = "Number" THEN values[2].v ELSE F64.zero

\* C11: handling `connect` produces exactly five responses, in this order:
\* Window Ack Size (type 5), Set Peer Bandwidth (type 6, limit type 2), Set
\* Chunk Size 4096 (type 1), User Control Stream Begin for stream 0 (type 4),
\* all on cs_id 2, then the `_result` command (type 20) on cs_id 3 with code
\* NetConnection.Connect.Success; a Connected event is raised, and its app_name
\* is the string `app` property of the command object (3rd value).
C11_ConnectResponses ==
    Called(Str.connect) =>
        /\ Len(output.responses) = 5
        /\ IsMessageOn(Sent(output.responses[1]), 2, 5, U32Zero)
        /\ Len(PayloadOf(output.responses[1])) = 4
        /\ IsMessageOn(Sent(output.responses[2]), 2, 6, U32Zero)
        /\ Len(PayloadOf(output.responses[2])) = 5
        /\ PayloadOf(output.responses[2])[5] = 2
        /\ IsMessageOn(Sent(output.responses[3]), 2, 1, U32Zero)
        /\ PayloadOf(output.responses[3]) = <<0, 0, 16, 0>>
        /\ IsMessageOn(Sent(output.responses[4]), 2, 4, U32Zero)
        /\ PayloadOf(output.responses[4]) = <<0, 0, 0, 0, 0, 0>>
        /\ IsMessageOn(Sent(output.responses[5]), 3, 20, U32Zero)
        /\ Len(decode_all(PayloadOf(output.responses[5]))) = 4
        /\ decode_all(PayloadOf(output.responses[5]))[1] = Amf0("String", Str.result)
        /\ decode_all(PayloadOf(output.responses[5]))[2]
               = Amf0("Number", TxnOf(decode_all(input.msg.payload)))
        /\ PropertyOf(decode_all(PayloadOf(output.responses[5])), 4, Str.code)
               = <<Amf0("String", Str.ConnectSuccess)>>
        /\ Len(output.event) = 1
        /\ output.event[1].kind = "Connected"
        /\ IsString(PropertyOf(decode_all(input.msg.payload), 3, Str.app))
               => output.event[1].app_name
                      = PropertyOf(decode_all(input.msg.payload), 3, Str.app)[1].v

\* connect has been handled on a handler that held another app_name, and the
\* event carries the name of the command object
C11_Witness ==
    /\ Called(Str.connect)
    /\ input.handler.app_name = Str.live
    /\ PropertyOf(decode_all(input.msg.payload), 3, Str.app) = <<Amf0("String", Str.key)>>
    /\ output.event[1].app_name = Str.key

\* the name of a command: its first value when that is a String, "" otherwise
NameOf(values) ==
    IF values # <<>> /\ values[1].t = "String" THEN values[1].v ELSE <<>>

\* the latest call handled an AMF0 command whose name is in names
CalledOneOf(names) ==
    /\ input.n > 0
    /\ input.msg.type_id = 20
    /\ NameOf(decode_all(input.msg.payload)) \in names

IgnoredNames == {Str.result, Str.error, Str.onStatus, Str.checkbw}

KnownNames ==
    {Str.connect, Str.releaseStream, Str.FCPublish, Str.createStream, Str.publish,
     Str.FCUnpublish, Str.deleteStream} \cup IgnoredNames

\* the numbers among those the peer sends that are > 0.0
PositiveTxns == {F64.one, F64.thirty_one, PeerF64.two}

\* the response is one command on cs_id 3, stream 0, made of these values
IsCommand(response, values) ==
    /\ IsMessageOn(Sent(response), 3, 20, U32Zero)
    /\ decode_all(PayloadOf(response)) = values

\* C13: a command whose name is none of the names the handler knows gets
\* exactly one response, `_result(txn, null)`, when its transaction id is > 0,
\* and nothing otherwise; _result, _error, onStatus and _checkbw get no
\* response and no event whatever the transaction id.
C13_UnknownCommand ==
    /\ (input.n > 0 /\ input.msg.type_id = 20
            /\ NameOf(decode_all(input.msg.payload)) \notin KnownNames) =>
          /\ output.event = <<>>
          /\ IF TxnOf(decode_all(input.msg.payload)) \in PositiveTxns
             THEN /\ Len(output.responses) = 1
                  /\ IsCommand(output.responses[1],
                         <<Amf0("String", Str.result),
                           Amf0("Number", TxnOf(decode_all(input.msg.payload))),
                           Amf0("Null", <<>>)>>)
             ELSE output.responses = <<>>
    /\ CalledOneOf(IgnoredNames) =>
          /\ output.responses = <<>>
          /\ output.event = <<>>

\* an unknown command with a positive transaction id has been answered
C13_Witness ==
    /\ CalledOneOf({Str.key})
    /\ TxnOf(decode_all(input.msg.payload)) = F64.thirty_one
    /\ Len(output.responses) = 1

\* C14: handling `publish` stores the 4th decoded value, a String, as
\* stream_key; it emits exactly two responses: User Control Stream Begin for
\* stream id 1 on cs_id 2 / stream 0, then `onStatus` NetStream.Publish.Start
\* on the message stream id of the publish message; and it raises a Publishing
\* event that carries the handler's app_name and stream_key.
C14_Publish ==
    CalledOneOf({Str.publish}) =>
        /\ (Len(decode_all(input.msg.payload)) >= 4
                /\ decode_all(input.msg.payload)[4].t = "String")
               => stream_key = decode_all(input.msg.payload)[4].v
        /\ app_name = input.handler.app_name
        /\ Len(output.responses) = 2
        /\ IsMessageOn(Sent(output.responses[1]), 2, 4, U32Zero)
        /\ PayloadOf(output.responses[1]) = <<0, 0, 0, 0, 0, 1>>
        /\ IsMessageOn(Sent(output.responses[2]), 3, 20, input.msg.stream_id)
        /\ Len(decode_all(PayloadOf(output.responses[2]))) = 4
        /\ decode_all(PayloadOf(output.responses[2]))[1] = Amf0("String", Str.onStatus)
        /\ PropertyOf(decode_all(PayloadOf(output.responses[2])), 4, Str.code)
               = <<Amf0("String", Str.PublishStart)>>
        /\ output.event
               = <<[kind |-> "Publishing", app_name |-> app_name,
                    stream_key |-> stream_key]>>

\* publish has been handled after connect, on a message stream other than 1
C14_Witness ==
    /\ CalledOneOf({Str.publish})
    /\ input.handler.app_name = Str.live
    /\ input.handler.stream_key = <<>>
    /\ input.msg.stream_id = U32(1, 2)
    /\ stream_key = Str.live

\* C15: handling releaseStream, FCPublish or createStream changes no handler
\* state (app_name, stream_key, window_ack_size, bytes_received,
\* last_ack_sent), raises no event and produces exactly one response:
\* `_result(txn, null)`, `onFCPublish(0, null)`, `_result(txn, null, 1.0)`.
C15_NoStateChange ==
    CalledOneOf({Str.releaseStream, Str.FCPublish, Str.createStream}) =>
        /\ HandlerState = input.handler
        /\ bytes_received = 0
        /\ last_ack_sent = 0
        /\ output.event = <<>>
        /\ output.new_chunk_size = <<>>
        /\ Len(output.responses) = 1
        /\ IsCommand(output.responses[1],
               CASE CalledOneOf({Str.releaseStream}) ->
                      <<Amf0("String", Str.result),
                        Amf0("Number", TxnOf(decode_all(input.msg.payload))),
                        Amf0("Null", <<>>)>>
                 [] CalledOneOf({Str.FCPublish}) ->
                      <<Amf0("String", Str.onFCPublish), Amf0("Number", F64.zero),
                        Amf0("Null", <<>>)>>
                 [] CalledOneOf({Str.createStream}) ->
                      <<Amf0("String", Str.result),
                        Amf0("Number", TxnOf(decode_all(input.msg.payload))),
                        Amf0("Null", <<>>), Amf0("Number", F64.one)>>)

\* createStream with transaction id 31 has been handled on a handler that
\* connect had given an app_name
C15_Witness ==
    /\ CalledOneOf({Str.createStream})
    /\ TxnOf(decode_all(input.msg.payload)) = F64.thirty_one
    /\ input.handler.app_name = Str.live
    /\ Len(output.responses) = 1

\* values[i] is one of the two names of a metadata message
IsMetaName(values, i) ==
    values[i] \in {Amf0("String", Str.setDataFrame), Amf0("String", Str.onMetaData)}

IsObjectValue(val) == val.t \in {"Object", "EcmaArray"}

\* the index of the first Object or EcmaArray after index i, 0 when none
NextObject(values, i) ==
    IF \E j \in (i + 1)..Len(values) : IsObjectValue(values[j])
    THEN CHOOSE j \in (i + 1)..Len(values) :
             /\ IsObjectValue(values[j])
             /\ \A k \in (i + 1)..(j - 1) : ~IsObjectValue(values[k])
    ELSE 0

\* C16: for an AMF0 data message, whenever the decoded values contain a string
\* equal to `@setDataFrame` or `onMetaData`, the next Object or EcmaArray that
\* follows that string is the metadata: a Metadata event with its properties
\* is raised.
C16_NextObjectIsMetadata ==
    (input.n > 0 /\ input.msg.type_id = 18) =>
        \A i \in 1..Len(decode_all(input.msg.payload)) :
            (IsMetaName(decode_all(input.msg.payload), i)
                 /\ NextObject(decode_all(input.msg.payload), i) # 0)
            => output.event
                 = <<[kind |-> "Metadata",
                      properties |->
                          decode_all(input.msg.payload)[
                              NextObject(decode_all(input.msg.payload), i)].v]>>

----------------------------------------------------------------------------
(* The AMF0 codec on its own: values written by Amf0Encoder and read back,  *)
(* and byte strings of the peer given to Amf0Decoder.                       *)

MaxNest == 2          \* how deep the values written are nested

\* the longest string write_utf8 writes whole, and a string one byte longer
MaxUtf8 == 65535

\* a String of len bytes, each the letter a
LongString(len) == Amf0("String", [i \in 1..len |-> 97])

\* the lengths of the long Strings written
LongLens == {MaxUtf8, MaxUtf8 + 1}

Amf0Atoms ==
    { Amf0("Number", F64.one), Amf0("Number", PeerF64.nan),
      Amf0("Boolean", <<1>>), Amf0("Boolean", <<0>>),
      Amf0("String", <<>>), Amf0("String", Str.app), Amf0("Null", <<>>) }

\* the values the encoder is given: Number, Boolean, String, Null, Object and
\* StrictArray, nested n deep
RECURSIVE Amf0ValuesOfDepth(_)
Amf0ValuesOfDepth(n) ==
    IF n = 0 THEN Amf0Atoms
    ELSE Amf0Atoms
           \cup {Amf0("Object", <<>>), Amf0("StrictArray", <<>>)}
           \cup {Amf0("Object", << <<k, v>> >>) :
                    k \in {<<>>, Str.app}, v \in Amf0ValuesOfDepth(n - 1)}
           \cup {Amf0("Object", << <<Str.app, v>>, <<<<>>, Amf0("Null", <<>>)>> >>) :
                    v \in Amf0ValuesOfDepth(n - 1)}
           \cup {Amf0("StrictArray", <<v>>) : v \in Amf0ValuesOfDepth(n - 1)}
           \cup {Amf0("StrictArray", <<v, Amf0("Number", F64.one)>>) :
                    v \in Amf0ValuesOfDepth(n - 1)}

Amf0Values == Amf0ValuesOfDepth(MaxNest)

\* markers the decoder does not know
UnknownMarkers == {4, 255}

\* byte strings in which the decoder meets an unknown marker: at top level, as
\* the value of an object property, as an item of a strict array (of two, or
\* of three of which two follow the marker), and in an array inside an object
BrokenAt(marker) ==
    { [where |-> "top", bytes |-> <<marker>>],
      [where |-> "object", bytes |-> <<3>> \o write_utf8(Str.app) \o <<marker>>],
      [where |-> "array", bytes |-> <<10, 0, 0, 0, 2>> \o write_null \o <<marker>>],
      [where |-> "array", bytes |-> <<10, 0, 0, 0, 3>> \o <<marker>>],
      [where |-> "object",
       bytes |-> <<3>> \o write_utf8(Str.app) \o <<10, 0, 0, 0, 1, marker>>] }

UnknownMarkerCases ==
    { [kind |-> "unknown", where |-> b.where, prefix |-> prefix,
       data |-> write_items(prefix) \o b.bytes \o write_items(suffix)] :
        prefix \in {<<>>, <<Amf0("Null", <<>>)>>,
                    <<Amf0("String", Str.app), Amf0("Number", F64.one)>>},
        b \in UNION {BrokenAt(marker) : marker \in UnknownMarkers},
        suffix \in {<<>>, <<Amf0("Null", <<>>)>>, <<Amf0("String", Str.key)>>} }

\* count fields of an EcmaArray: too small, right for one or two pairs, too large
EcmaCounts == {<<0, 0, 0, 0>>, <<0, 0, 0, 1>>, <<0, 0, 0, 2>>, <<255, 255, 255, 255>>}

EcmaPairs ==
    { <<>>,
      << <<Str.app, Amf0("String", Str.live)>> >>,
      << <<Str.level, Amf0("Number", F64.one)>>, <<Str.app, Amf0("Null", <<>>)>> >> }

\* EcmaArrays: the count field, the body (pairs and terminator, or pairs cut
\* short of the terminator) and what follows the array
EcmaCasesOf(pairs) ==
    { [kind |-> "ecma", count |-> count, pairs |-> pairs, body |-> body, rest |-> rest,
       data |-> <<8>> \o count \o body \o rest] :
        count \in EcmaCounts,
        body \in {write_pairs(pairs) \o <<0, 0, 9>>, write_pairs(pairs)},
        rest \in {<<>>, write_null} }

EcmaCases == UNION {EcmaCasesOf(pairs) : pairs \in EcmaPairs}

DecodeCases == UnknownMarkerCases \cup EcmaCases

InitAmf0 ==
    /\ HandlerNew
    /\ acks = <<>> /\ tracked = <<>> /\ windowSet = FALSE
    /\ wire = <<>> /\ script = <<>> /\ buf = <<>> /\ states = NoStates
    /\ max_chunk_size = DefaultChunkSize /\ pc = "select" /\ emitted = <<>>
    /\ nreads = 0 /\ lastTry = NoTry
    /\ ConnNew
    /\ NoCalls
    /\ MonitorNew

\* Amf0Encoder::new(), write_value(val), into_bytes(), then Amf0Decoder::new
\* on the bytes written and decode(): written is the number of bytes the
\* encoder wrote
RoundTrip(val) ==
    /\ input.n = 0
    /\ input' = [n |-> 1, op |-> "round_trip", value |-> val]
    /\ \E data \in {write_value(val)} :
           output' = [written |-> Len(data), first |-> decode(data, 0)]
    /\ UNCHANGED <<chunkVars, handlerVars, ackVars, connVars, monitorVars>>

\* the same for a String of len letters, of which the state keeps the length:
\* exact says that decode() gave back the String written and consumed every
\* byte written, len is the length of the String it gave back
RoundTripString(len) ==
    /\ input.n = 0
    /\ input' = [n |-> 1, op |-> "round_trip_string", len |-> len]
    /\ \E data \in {write_value(LongString(len))} :
           \E r \in {decode(data, 0)} :
               output' = [written |-> Len(data),
                          exact |-> r = DecSome(LongString(len), Len(data)),
                          len |-> IF r.ok THEN Len(r.val[1].v) ELSE -1]
    /\ UNCHANGED <<chunkVars, handlerVars, ackVars, connVars, monitorVars>>

\* Amf0Decoder::new(data) on bytes of the peer: decode(), and decode_all() on a
\* second decoder
DecodeBytes(case) ==
    /\ input.n = 0
    /\ input' = [n |-> 1, op |-> "decode", case |-> case]
    /\ output' = [first |-> decode(case.data, 0), all |-> decode_all(case.data)]
    /\ UNCHANGED <<chunkVars, handlerVars, ackVars, connVars, monitorVars>>

NextAmf0 ==
    \/ \E val \in Amf0Values : RoundTrip(val)
    \/ \E len \in LongLens : RoundTripString(len)
    \/ \E case \in DecodeCases : DecodeBytes(case)

SpecAmf0 == InitAmf0 /\ [][NextAmf0]_vars

----------------------------------------------------------------------------
(* Claims about the AMF0 codec, checked under SpecAmf0 *)

\* a value has been written and the bytes decoded
RoundTripped == input.n = 1 /\ input.op = "round_trip"

\* a long String has been written and the bytes decoded
StringRoundTripped == input.n = 1 /\ input.op = "round_trip_string"

\* every String and every property name of the value is at most n bytes long
RECURSIVE StringsWithin(_, _)
StringsWithin(val, n) ==
    CASE val.t = "String" -> Len(val.v) <= n
      [] val.t \in {"Object", "EcmaArray"} ->
           \A i \in 1..Len(val.v) :
               Len(val.v[i][1]) <= n /\ StringsWithin(val.v[i][2], n)
      [] val.t = "StrictArray" -> \A i \in 1..Len(val.v) : StringsWithin(val.v[i], n)
      [] OTHER -> TRUE

\* C17 as claimed: for every value v built from Number, Boolean, String, Null,
\* Object and StrictArray, decoding the bytes the encoder writes for v yields
\* exactly v and consumes exactly those bytes.
C17_AsClaimed ==
    /\ RoundTripped => output.first = DecSome(input.value, output.written)
    /\ StringRoundTripped => output.exact

\* C17 amended: the same for every such value whose Strings and property
\* names are at most 65535 bytes long.
C17_RoundTrip ==
    /\ (RoundTripped /\ StringsWithin(input.value, MaxUtf8)) =>
           output.first = DecSome(input.value, output.written)
    /\ (StringRoundTripped /\ input.len <= MaxUtf8) => output.exact

\* an Object holding a property with an empty name and a nested StrictArray
\* has been written and read back
C17_Witness ==
    /\ RoundTripped
    /\ input.value.t = "Object"
    /\ Len(input.value.v) = 2
    /\ input.value.v[1][2].t = "StrictArray"
    /\ Len(input.value.v[1][2].v) = 2
    /\ output.first.ok

\* bytes with an unknown marker have been decoded
UnknownMarkerMet == input.n = 1 /\ input.op = "decode" /\ input.case.kind = "unknown"

\* C18: once the decoder meets an unknown marker, at top level, inside an
\* object or inside a strict array, decode_all returns only the values that
\* were complete before that byte and decodes nothing from the bytes after it.
C18_UnknownMarkerAborts ==
    UnknownMarkerMet => output.all = input.case.prefix

\* an EcmaArray of the peer has been decoded
EcmaDecoded == input.n = 1 /\ input.op = "decode" /\ input.case.kind = "ecma"

WithCount(case, count) == <<8>> \o count \o case.body \o case.rest

\* C19: the count field of an EcmaArray is never trusted: inputs that differ
\* only in the count decode to the same value and consume the same number of
\* bytes, and the array ends where its body's terminator ends.
C19_CountNotTrusted ==
    EcmaDecoded =>
        /\ \A count \in EcmaCounts :
               /\ decode(WithCount(input.case, count), 0) = output.first
               /\ decode_all(WithCount(input.case, count)) = output.all
        /\ input.case.body = write_pairs(input.case.pairs) \o <<0, 0, 9>>
               => output.first
                    = DecSome(Amf0("EcmaArray", input.case.pairs), 5 + Len(input.case.body))
        /\ input.case.body = write_pairs(input.case.pairs) => ~output.first.ok

\* an EcmaArray of two pairs whose count field says 0 has been decoded, and
\* the value that follows it too
C19_Witness ==
    /\ EcmaDecoded
    /\ input.case.count = <<0, 0, 0, 0>>
    /\ output.first.ok
    /\ Len(output.first.val[1].v) = 2
    /\ Len(output.all) = 2

----------------------------------------------------------------------------
(* The video analyzer on its own: payloads of the peer, one process call each *)

MaxFrames == 2        \* process calls

\* AVCDecoderConfigurationRecords: too short for its fixed part; without a
\* parameter set; with a Baseline set of 320x240; with a High set with a
\* scaling list, picture order count type 1, fields and cropping; with a set
\* cropped by more than its width; with a set longer than the record; with
\* two sets, one ending after its profile and one with an emulation
\* prevention byte; with a set whose length is cut
Config ==
    [short |-> <<1, 66, 0>>,
     no_sps |-> <<1, 66, 0, 30, 255, 224>>,
     baseline |-> <<1, 66, 0, 30, 255, 225, 0, 8, 103, 66, 0, 30, 244, 10, 15, 208,
                    1, 0, 1, 104>>,
     high |-> <<1, 100, 0, 41, 253, 225, 0, 12, 103, 100, 0, 41, 173, 132, 64, 83,
                105, 166, 125, 64>>,
     cropped |-> <<1, 77, 0, 31, 255, 225, 0, 7, 103, 77, 0, 31, 221, 241, 94>>,
     cut |-> <<1, 66, 0, 30, 255, 225, 0, 9, 103, 66>>,
     two |-> <<1, 88, 0, 12, 252, 226, 0, 2, 103, 66, 0, 7, 103, 66, 0, 0, 3, 3, 248>>,
     no_length |-> <<1, 66, 0, 30, 255, 225, 0>>]

\* composition times: none, one, minus one
CompositionTimes == {<<0, 0, 0>>, <<0, 0, 1>>, <<255, 255, 255>>}

\* the first byte of a video payload
FirstByte(frame_type_id, codec_id) == frame_type_id * 16 + codec_id

\* AVC NALU packets of every frame type, among them the types FLV does not
\* define (0 and 6)
AvcFrames ==
    { <<FirstByte(ft, 7), 1>> \o cto \o <<101>> : ft \in 0..6, cto \in CompositionTimes }

\* AVC end of sequence and an AVC packet type that is not defined
AvcOthers == { <<FirstByte(ft, 7), pt, 0, 0, 0>> : ft \in {1, 2}, pt \in {2, 3} }

\* AVC sequence headers, one of them in an info frame
AvcSequenceHeaders ==
    { <<FirstByte(1, 7), 0, 0, 0, 0>> \o Config[k] : k \in DOMAIN Config }
        \cup { <<FirstByte(1, 7), 0, 0, 0, 0>>,
               <<FirstByte(5, 7), 0, 0, 0, 0>> \o Config.baseline }

\* AVC payloads shorter than the five bytes of an AVC packet header
AvcShort ==
    { <<FirstByte(1, 7)>>, <<FirstByte(1, 7), 0>>, <<FirstByte(1, 7), 1, 0, 0>>,
      <<FirstByte(0, 7), 1>>, <<FirstByte(2, 7), 2>> }

\* payloads of other codecs (Sorenson H.263, and a codec id that is not defined)
NonAvc == { <<FirstByte(ft, 2), 0>> : ft \in 0..5 } \cup { <<FirstByte(1, 0)>> }

VideoPayloads ==
    {<<>>} \cup AvcFrames \cup AvcOthers \cup AvcSequenceHeaders \cup AvcShort \cup NonAvc

InitVideo ==
    /\ HandlerNew
    /\ acks = <<>> /\ tracked = <<>> /\ windowSet = FALSE
    /\ wire = <<>> /\ script = <<>> /\ buf = <<>> /\ states = NoStates
    /\ max_chunk_size = DefaultChunkSize /\ pc = "select" /\ emitted = <<>>
    /\ nreads = 0 /\ lastTry = NoTry
    /\ ConnNew
    /\ NoCalls
    /\ MonitorNew

\* the payloads of the process calls made so far
Payloads == IF input.n = 0 THEN <<>> ELSE input.payloads

\* video_analyzer.process(data, timestamp)
Process(data) ==
    /\ input.n < MaxFrames
    /\ input' = [n |-> input.n + 1, op |-> "process", video_analyzer |-> video_analyzer,
                 payloads |-> Append(Payloads, data)]
    /\ video_analyzer' = process(video_analyzer, data)
    /\ UNCHANGED <<output, chunkVars, handlerVars, ackVars, read_buf, ack_data, batch,
                   responses, event, publishing, log, parsed, announced, rendered,
                   handled, monitorVars>>

NextVideo == \E data \in VideoPayloads : Process(data)

SpecVideo == InitVideo /\ [][NextVideo]_vars

----------------------------------------------------------------------------
(* Claims about the video analyzer, checked under SpecVideo *)

\* every payload has codec id 7
AllAvc(payloads) ==
    \A i \in 1..Len(payloads) : payloads[i] # <<>> /\ payloads[i][1] % 16 = 7

\* C20: after any sequence of process calls whose payloads are all AVC (codec
\* id 7), keyframe_count + inter_frame_count + b_frame_count equals
\* total_video_frames.
C20_FrameCountsAddUp ==
    (input.n > 0 /\ AllAvc(Payloads)) =>
        video_analyzer.keyframe_count + video_analyzer.inter_frame_count
            + video_analyzer.b_frame_count = video_analyzer.total_video_frames

\* the analyzer before the latest process call, and the payload of that call
Before == input.video_analyzer

LastPayload == input.payloads[Len(input.payloads)]

\* an AVC packet whose five-byte header says sequence header
IsSequenceHeader(data) == Len(data) >= 5 /\ data[1] % 16 = 7 /\ data[2] = 0

FrameCounters(va) ==
    <<va.keyframe_count, va.inter_frame_count, va.b_frame_count, va.total_video_frames>>

C38_HeadersNotCounted ==
    (/\ input.n > 0
     /\ Len(LastPayload) >= 2
     /\ LastPayload[1] % 16 = 7
     /\ LastPayload[2] \in {0, 2})
        => FrameCounters(video_analyzer) = FrameCounters(Before)

----------------------------------------------------------------------------
(* The stream statistics on their own: frames recorded as time passes *)

MaxRecords == 3       \* record calls

\* the time between two record calls, in milliseconds
RecordDelays == {0, 1000, 2000, 2001}

InitStats ==
    /\ HandlerNew
    /\ acks = <<>> /\ tracked = <<>> /\ windowSet = FALSE
    /\ wire = <<>> /\ script = <<>> /\ buf = <<>> /\ states = NoStates
    /\ max_chunk_size = DefaultChunkSize /\ pc = "select" /\ emitted = <<>>
    /\ nreads = 0 /\ lastTry = NoTry
    /\ ConnNew
    /\ NoCalls
    /\ MonitorNew

\* stats.record_video_frame(byte_count, is_keyframe), delay after the last call
RecordVideoFrame(delay, byte_count, is_keyframe) ==
    /\ input.n < MaxRecords
    /\ clock' = clock + delay
    /\ stats' = record_video_frame(stats, clock + delay, byte_count, is_keyframe)
    /\ input' = [n |-> input.n + 1, op |-> "record_video_frame", stats |-> stats]
    /\ UNCHANGED <<output, chunkVars, handlerVars, ackVars, connVars, audio_analyzer,
                   diagnostics, encoder_name, handshake>>

\* stats.record_audio_frame(byte_count), delay after the last call
RecordAudioFrame(delay, byte_count) ==
    /\ input.n < MaxRecords
    /\ clock' = clock + delay
    /\ stats' = record_audio_frame(stats, clock + delay, byte_count)
    /\ input' = [n |-> input.n + 1, op |-> "record_audio_frame", stats |-> stats]
    /\ UNCHANGED <<output, chunkVars, handlerVars, ackVars, connVars, audio_analyzer,
                   diagnostics, encoder_name, handshake>>

NextStats ==
    \/ \E delay \in RecordDelays, byte_count \in {0, 100}, is_keyframe \in BOOLEAN :
           RecordVideoFrame(delay, byte_count, is_keyframe)
    \/ \E delay \in RecordDelays, byte_count \in {0, 100} :
           RecordAudioFrame(delay, byte_count)

SpecStats == InitStats /\ [][NextStats]_vars

----------------------------------------------------------------------------
(* Claims about the stream statistics, checked under SpecStats *)

\* the timestamps of the entries of the three windows
WindowTimes ==
    {stats.video_frame_times[i] : i \in 1..Len(stats.video_frame_times)}
        \cup {stats.video_byte_window[i][1] : i \in 1..Len(stats.video_byte_window)}
        \cup {stats.audio_byte_window[i][1] : i \in 1..Len(stats.audio_byte_window)}

\* C22: after each record call taken at time now, every entry of each of the
\* three windows has a timestamp strictly later than now - 2s.
C22_WindowsFresh ==
    input.n > 0 => \A t \in WindowTimes : t > clock - WindowDuration

----------------------------------------------------------------------------
(* The stream diagnostics on their own: observations recorded and checks run
   as time passes.  input.args are the arguments check_all is usually called
   with, output is the buffer every check_all call so far returned, and when *)

MaxDiagCalls == 3     \* record and check_all calls

\* keyframe intervals around the limits of the profile
IntervalsNear(profile) ==
    { (9 * MaxInterval(profile)) \div 10, (9 * MaxInterval(profile)) \div 10 + 1,
      MaxInterval(profile), MaxInterval(profile) + 1 }

\* resolutions: standard, even, of odd width, of odd height, of both, beyond
\* 16 bits and even
Resolutions ==
    { <<U32(0, 1920), U32(0, 1080)>>, <<U32(0, 1000), U32(0, 500)>>,
      <<U32(0, 853), U32(0, 480)>>, <<U32(0, 854), U32(0, 481)>>,
      <<U32(0, 1921), U32(0, 1081)>>, <<U32(65535, 65534), U32(0, 16)>> }

NoArgs == CheckArgs(<<>>, <<>>, <<>>, <<>>, <<>>, <<>>, <<>>)

\* other arguments: a Baseline stream in mono AAC Main at 22050 Hz with the
\* height unknown and a short keyframe interval
OtherArgs == CheckArgs(<<U32(0, 853)>>, <<>>, <<"Baseline">>, <<22050>>, <<1>>,
                       <<"AAC Main">>, <<1000>>)

ArgsFor(profile) ==
    {NoArgs}
        \cup {[NoArgs EXCEPT !.current_keyframe_interval = <<i>>] :
                 i \in IntervalsNear(profile)}
        \cup {[NoArgs EXCEPT !.video_width = <<r[1]>>, !.video_height = <<r[2]>>,
                             !.video_profile = <<"High">>] : r \in Resolutions}

\* the time that passes before a check_all call, in milliseconds
CheckDelays == {499, 500, 3000}

\* timestamps of messages: 0, 1, later by more than a second, and 2^31, which
\* is half the range after 0 and less than that after 1
Timestamps == {U32Zero, U32(0, 1), U32(0, 5000), HalfRange}

InitDiag ==
    /\ HandlerNew
    /\ acks = <<>> /\ tracked = <<>> /\ windowSet = FALSE
    /\ wire = <<>> /\ script = <<>> /\ buf = <<>> /\ states = NoStates
    /\ max_chunk_size = DefaultChunkSize /\ pc = "select" /\ emitted = <<>>
    /\ nreads = 0 /\ lastTry = NoTry
    /\ ConnNew
    /\ audio_analyzer = AudioAnalyzerNew /\ stats = StreamStatsNew
    /\ encoder_name = <<>> /\ clock = 0 /\ handshake = HandshakeNew(0)
    /\ \E profile \in ServiceProfiles :
           /\ diagnostics = set_profile(StreamDiagnosticsNew, profile)
           /\ \E a \in ArgsFor(profile) : input = [n |-> 0, args |-> a]
    /\ output = <<>>

\* a record call on diagnostics, delay after the last call, that leaves
\* diagnostics as after
Observe(op, arg, delay, after) ==
    /\ input.n < MaxDiagCalls
    /\ clock' = clock + delay
    /\ diagnostics' = after
    /\ input' = [n |-> input.n + 1, op |-> op, arg |-> arg, args |-> input.args,
                 before |-> diagnostics]
    /\ UNCHANGED <<output, chunkVars, handlerVars, ackVars, connVars, audio_analyzer,
                   stats, encoder_name, handshake>>

RecordStreamStart ==
    Observe("record_stream_start", <<>>, 0, record_stream_start(diagnostics, clock))

RecordAvcSeqHeader ==
    Observe("record_avc_seq_header", <<>>, 0, record_avc_seq_header(diagnostics, clock))

RecordAacSeqHeader ==
    Observe("record_aac_seq_header", <<>>, 0, record_aac_seq_header(diagnostics, clock))

RecordKeyframe(delay, interval_secs) ==
    Observe("record_keyframe", <<>>, delay,
            record_keyframe(diagnostics, clock + delay, interval_secs))

RecordBFrame == Observe("record_b_frame", <<>>, 0, record_b_frame(diagnostics))

RecordMetadata ==
    Observe("record_metadata", <<>>, 0, record_metadata(diagnostics, TRUE, FALSE, TRUE))

RecordVideoTimestamp(ts) ==
    Observe("record_video_timestamp", <<ts>>, 0, record_video_timestamp(diagnostics, ts))

RecordAudioTimestamp(ts) ==
    Observe("record_audio_timestamp", <<ts>>, 0, record_audio_timestamp(diagnostics, ts))

\* diagnostics.check_all(...), delay after the last call, with the arguments a
CheckAll(delay, a) ==
    /\ input.n < MaxDiagCalls
    /\ clock' = clock + delay
    /\ diagnostics' = check_all(diagnostics, clock + delay, a)
    /\ output' = Append(output, [time |-> clock + delay, args |-> a,
                                 result |-> diagnostics'.diagnostics])
    /\ input' = [n |-> input.n + 1, op |-> "check_all", arg |-> <<>>,
                 args |-> input.args, before |-> diagnostics]
    /\ UNCHANGED <<chunkVars, handlerVars, ackVars, connVars, audio_analyzer, stats,
                   encoder_name, handshake>>

NextDiag ==
    \/ RecordStreamStart
    \/ RecordAvcSeqHeader
    \/ RecordAacSeqHeader
    \/ \E delay \in {0, 1500} : RecordKeyframe(delay, <<2500>>)
    \/ RecordBFrame
    \/ RecordMetadata
    \/ \E ts \in Timestamps : RecordVideoTimestamp(ts)
    \/ \E ts \in {U32(0, 1), HalfRange} : RecordAudioTimestamp(ts)
    \/ \E delay \in CheckDelays, a \in {input.args, OtherArgs} : CheckAll(delay, a)

SpecDiag == InitDiag /\ [][NextDiag]_vars

----------------------------------------------------------------------------
(* Claims about the stream diagnostics, checked under SpecDiag *)

\* the latest call was check_all; what it returned and the call before it
Checked == input.n > 0 /\ input.op = "check_all"

LastCheck == output[Len(output)]

\* among the first k check_all calls, the last one that was not throttled as
\* the times say: the first call, and every call 500 ms or more after the
\* one before it that was not throttled (0: no call)
RECURSIVE LastFullCheck(_)
LastFullCheck(k) ==
    IF k = 0 THEN 0
    ELSE IF LastFullCheck(k - 1) = 0 THEN k
    ELSE IF output[k].time - output[LastFullCheck(k - 1)].time >= 500 THEN k
    ELSE LastFullCheck(k - 1)

\* the latest call was a check_all made less than 500 ms after the previous
\* check_all that was not throttled
ThrottledCheck == Checked /\ LastFullCheck(Len(output)) # Len(output)

FullCheck == Checked /\ LastFullCheck(Len(output)) = Len(output)

\* C23: a check_all call made less than 500 ms after the previous
\* non-throttled check_all returns a buffer identical to the previous result
\* and leaves the cached diagnostics and last_check_time unchanged, whatever
\* its arguments and the observations recorded in between; the first
\* check_all is never throttled.
C23_Throttled ==
    /\ ThrottledCheck =>
           /\ LastCheck.result = output[Len(output) - 1].result
           /\ diagnostics.diagnostics = input.before.diagnostics
           /\ diagnostics.last_check_time = input.before.last_check_time
    /\ (Checked /\ Len(output) = 1) =>
           /\ diagnostics.last_check_time = <<clock>>
           /\ LastCheck.result = SortBySeverity(AllChecks(input.before, clock, LastCheck.args))

\* a check_all call 499 ms after a check that was not throttled, with other
\* arguments, which alone would have given another result
C23_Witness ==
    /\ ThrottledCheck
    /\ Len(output) = 2
    /\ output[2].time - output[1].time = 499
    /\ output[2].args # output[1].args
    /\ SortBySeverity(AllChecks(input.before, clock, LastCheck.args)) # LastCheck.result

\* the items of a buffer are in the order Error, Warning, Info
SortedBySeverity(items) ==
    \A i, j \in 1..Len(items) :
        i < j => SeverityRank[items[i].severity] >= SeverityRank[items[j].severity]

\* C24: every buffer check_all returns is sorted by severity descending, and
\* error_count() is the number of Error items of the cached buffer.
C24_SortedAndCounted ==
    /\ \A k \in 1..Len(output) : SortedBySeverity(output[k].result)
    /\ error_count(diagnostics)
         = Cardinality({i \in 1..Len(diagnostics.diagnostics) :
                           diagnostics.diagnostics[i].severity = "Error"})

\* a buffer with an Info item pushed before a Warning and an Error has been
\* returned
C24_Witness ==
    /\ FullCheck
    /\ \E i, j \in 1..Len(AllChecks(input.before, clock, LastCheck.args)) :
           /\ i < j
           /\ AllChecks(input.before, clock, LastCheck.args)[i].severity = "Info"
           /\ AllChecks(input.before, clock, LastCheck.args)[j].severity = "Error"
    /\ \E i \in 1..Len(LastCheck.result) : LastCheck.result[i].severity = "Warning"
    /\ error_count(diagnostics) >= 2

\* the items of a buffer whose message has one of the format strings
ItemsOf(items, formats) == SelectSeq(items, LAMBDA item : item.message[1] \in formats)

OddDimensionsFormat == "Resolution {}x{} has odd dimensions (must be even)"

\* C27: a non-throttled check_all with known width w and height h emits the
\* odd-dimensions Error exactly when w or h is odd and (w, h) is not one of
\* the whitelisted resolutions.
C27_OddDimensions ==
    (FullCheck /\ LastCheck.args.video_width # <<>> /\ LastCheck.args.video_height # <<>>) =>
        LET w == LastCheck.args.video_width[1]
            h == LastCheck.args.video_height[1]
            errors == ItemsOf(LastCheck.result, {OddDimensionsFormat})
        IN  /\ \A i \in 1..Len(errors) : errors[i].severity = "Error"
            /\ Len(errors) = IF (w.lo % 2 = 1 \/ h.lo % 2 = 1) /\ ~IsStandard(w, h)
                             THEN 1 ELSE 0

\* a resolution of even width and odd height has been flagged
C27_Witness ==
    /\ FullCheck
    /\ LastCheck.args.video_width = <<U32(0, 854)>>
    /\ LastCheck.args.video_height = <<U32(0, 481)>>
    /\ Len(ItemsOf(LastCheck.result, {OddDimensionsFormat})) = 1

KeyframeIntervalFormats ==
    { "Keyframe interval {:.1}s exceeds {} max ({:.0}s)",
      "Keyframe interval {:.1}s near {} limit ({:.0}s)" }

\* the maximum of the claim, in milliseconds
ClaimedMax == [Twitch |-> 2000, YouTube |-> 4000, Generic |-> 4000]

\* C28: a non-throttled check_all with current interval i and profile maximum
\* M emits exactly one keyframe-interval diagnostic, an Error when i > M, a
\* Warning when 0.9 * M < i <= M, and none when i <= 0.9 * M or no interval
\* is known.
C28_KeyframeInterval ==
    FullCheck =>
        LET items == ItemsOf(LastCheck.result, KeyframeIntervalFormats)
            M == ClaimedMax[diagnostics.profile]
            i == LastCheck.args.current_keyframe_interval
        IN  IF i = <<>> THEN items = <<>>
            ELSE IF i[1] > M THEN Len(items) = 1 /\ items[1].severity = "Error"
            ELSE IF 10 * i[1] > 9 * M THEN Len(items) = 1 /\ items[1].severity = "Warning"
            ELSE items = <<>>

\* on Twitch the interval of exactly 2 s has brought the Warning, and checks
\* with 1.8 s and with more than 2 s are made as well
C28_Witness ==
    /\ FullCheck
    /\ diagnostics.profile = "Twitch"
    /\ LastCheck.args.current_keyframe_interval = <<2000>>
    /\ Len(ItemsOf(LastCheck.result, KeyframeIntervalFormats)) = 1

\* the bookkeeping of the claim for one kind of timestamp: the rollback
\* counter, the largest gap and the last timestamp after recording ts, given
\* the three before
Bookkeeping(rollbacks, gap, last, ts) ==
    IF last = <<>> THEN [rollbacks |-> rollbacks, gap |-> gap, last |-> <<ts>>]
    ELSE IF U32Lt(ts, last[1]) /\ U32Lt(U32Sub(last[1], ts), U32(32768, 0))
    THEN [rollbacks |-> rollbacks + 1, gap |-> gap, last |-> <<ts>>]
    ELSE IF U32Lt(last[1], ts)
    THEN [rollbacks |-> rollbacks,
          gap |-> IF U32Lt(gap, U32Sub(ts, last[1])) THEN U32Sub(ts, last[1]) ELSE gap,
          last |-> <<ts>>]
    ELSE [rollbacks |-> rollbacks, gap |-> gap, last |-> <<ts>>]

VideoBookkeeping(d) ==
    [rollbacks |-> d.video_ts_rollbacks, gap |-> d.max_video_ts_gap, last |-> d.last_video_ts]

AudioBookkeeping(d) ==
    [rollbacks |-> d.audio_ts_rollbacks, gap |-> d.max_audio_ts_gap, last |-> d.last_audio_ts]

RecordedVideo == input.n > 0 /\ input.op = "record_video_timestamp"

RecordedAudio == input.n > 0 /\ input.op = "record_audio_timestamp"

\* C29: record_video_timestamp(new) and record_audio_timestamp(new) with a
\* previous timestamp last add one to the rollback counter exactly when
\* new < last and last - new < 2^31; otherwise, if new > last, the max gap
\* becomes max(old max, new - last); a 32-bit wrap (new < last and
\* last - new >= 2^31) changes neither counter; last_*_ts is new afterwards
\* in every case, and the bookkeeping of the other kind is left alone.
C29_TimestampBookkeeping ==
    /\ RecordedVideo =>
           /\ VideoBookkeeping(diagnostics)
                = Bookkeeping(input.before.video_ts_rollbacks, input.before.max_video_ts_gap,
                              input.before.last_video_ts, input.arg[1])
           /\ AudioBookkeeping(diagnostics) = AudioBookkeeping(input.before)
    /\ RecordedAudio =>
           /\ AudioBookkeeping(diagnostics)
                = Bookkeeping(input.before.audio_ts_rollbacks, input.before.max_audio_ts_gap,
                              input.before.last_audio_ts, input.arg[1])
           /\ VideoBookkeeping(diagnostics) = VideoBookkeeping(input.before)

\* a video timestamp of 0 has been recorded after 2^31, which is a wrap, and
\* counted as no rollback
C29_Witness ==
    /\ RecordedVideo
    /\ input.before.last_video_ts = <<U32(32768, 0)>>
    /\ input.arg = <<U32Zero>>
    /\ diagnostics.video_ts_rollbacks = input.before.video_ts_rollbacks
    /\ diagnostics.last_video_ts = <<U32Zero>>

\* an audio timestamp of 1 has been recorded after 2^31, 2^31 - 1 earlier,
\* and counted as a rollback, after the gap from 1 to 2^31 was recorded
C29_WitnessRollback ==
    /\ RecordedAudio
    /\ input.before.last_audio_ts = <<U32(32768, 0)>>
    /\ input.arg = <<U32(0, 1)>>
    /\ diagnostics.audio_ts_rollbacks = input.before.audio_ts_rollbacks + 1
    /\ diagnostics.max_audio_ts_gap = U32(32767, 65535)

----------------------------------------------------------------------------
(* record_keyframe called more often than the list of intervals is long.    *)
(* input.passed are the arguments of the calls so far, in order.            *)

MaxKeyframeCalls == 12    \* record_keyframe calls

\* the interval the k-th call passes when it passes one, in milliseconds: all
\* different
IntervalOf(k) == 100 * k

InitKeyframes ==
    /\ HandlerNew
    /\ acks = <<>> /\ tracked = <<>> /\ windowSet = FALSE
    /\ wire = <<>> /\ script = <<>> /\ buf = <<>> /\ states = NoStates
    /\ max_chunk_size = DefaultChunkSize /\ pc = "select" /\ emitted = <<>>
    /\ nreads = 0 /\ lastTry = NoTry
    /\ ConnNew
    /\ MonitorNew
    /\ input = [n |-> 0, op |-> "record_keyframe", passed |-> <<>>,
                before |-> diagnostics]
    /\ output = <<>>

\* diagnostics.record_keyframe(interval_secs), a tenth of a second after the
\* call before
RecordKeyframeCall(interval_secs) ==
    /\ input.n < MaxKeyframeCalls
    /\ clock' = clock + 100
    /\ diagnostics' = record_keyframe(diagnostics, clock + 100, interval_secs)
    /\ input' = [n |-> input.n + 1, op |-> "record_keyframe",
                 passed |-> Append(input.passed, interval_secs),
                 before |-> diagnostics]
    /\ UNCHANGED <<output, chunkVars, handlerVars, ackVars, connVars, audio_analyzer,
                   stats, encoder_name, handshake>>

NextKeyframes ==
    \E interval_secs \in {<<>>, <<IntervalOf(input.n + 1)>>} :
        RecordKeyframeCall(interval_secs)

SpecKeyframes == InitKeyframes /\ [][NextKeyframes]_vars

----------------------------------------------------------------------------
(* Claims about record_keyframe, checked under SpecKeyframes *)

\* the intervals among the arguments passed, in order
RECURSIVE IntervalsPassed(_)
IntervalsPassed(passed) ==
    IF passed = <<>> THEN <<>>
    ELSE IF Head(passed) = <<>> THEN IntervalsPassed(Tail(passed))
    ELSE <<Head(passed)[1]>> \o IntervalsPassed(Tail(passed))

\* the last n values of s, all of them when there are fewer
LastUpTo(s, n) == SubSeq(s, IF Len(s) > n THEN Len(s) - n + 1 ELSE 1, Len(s))

\* C40: after any record_keyframe call keyframe_intervals holds at most 10
\* values, the most recent (up to 10) intervals passed to record_keyframe in
\* the order they came; record_keyframe(None) leaves the list as it was.
C40_LastTenIntervals ==
    /\ Len(diagnostics.keyframe_intervals) <= 10
    /\ diagnostics.keyframe_intervals = LastUpTo(IntervalsPassed(input.passed), 10)
    /\ (input.n > 0 /\ Last(input.passed) = <<>>) =>
           diagnostics.keyframe_intervals = input.before.keyframe_intervals

\* twelve intervals passed, the two oldest dropped
C40_Witness ==
    /\ input.n = 12
    /\ Len(IntervalsPassed(input.passed)) = 12
    /\ Len(diagnostics.keyframe_intervals) = 10
    /\ Head(diagnostics.keyframe_intervals) = IntervalOf(3)
    /\ Last(diagnostics.keyframe_intervals) = IntervalOf(12)

\* the list full, and a call without an interval after it
C40_WitnessNone ==
    /\ input.n = 12
    /\ Last(input.passed) = <<>>
    /\ Len(input.before.keyframe_intervals) = 10
    /\ Head(diagnostics.keyframe_intervals) = IntervalOf(2)

----------------------------------------------------------------------------
(* The handshake, and the bytes that reach the ChunkReader after it *)

HANDSHAKE_SIZE == 1536

\* vec![0u8; HANDSHAKE_SIZE + 4096]
C2BufferSize == HANDSHAKE_SIZE + 4096

\* vec![0u8; 65536] of handle_connection
ReadBufferSize == 65536

MaxHandshakeReads == 5

\* The bytes the client sends are told apart by their position in the
\* client's stream: byte i is written i. perform_handshake copies them and
\* looks at none of them, so a byte lost, doubled or moved shows in a buffer.
ClientStream(from, to) == [i \in 1..(to - from + 1) |-> from + i - 1]

\* what the client sends in all: C0 and part of C1; C0, C1 and part of C2;
\* C0, C1, C2 and 0, 1, 4095, 4096, 4097 bytes of chunks
ClientTotals ==
    {HANDSHAKE_SIZE, 2 * HANDSHAKE_SIZE}
      \cup {1 + 2 * HANDSHAKE_SIZE + extra : extra \in {0, 1, 4095, 4096, 4097}}

\* how many bytes a socket read returns at most
HandshakeReadSizes == {1, HANDSHAKE_SIZE - 1, HANDSHAKE_SIZE, HANDSHAKE_SIZE + 1, ReadBufferSize}

\* the 1528 bytes (i % 256) as u8 of S1
Ramp(n) == [i \in 1..n |-> (i - 1) % 256]

\* S0 + S1 + S2 for the C0 + C1 read
Response(c0c1) ==
    <<3>> \o <<0, 0, 0, 0>> \o <<0, 0, 0, 0>> \o Ramp(HANDSHAKE_SIZE - 8)
      \o SubSeq(c0c1, 2, 5) \o <<0, 0, 0, 0>> \o Drop(c0c1, 9)

\* (mutant) what came with the tail of C2 is dropped
RemainingNone(c2) == <<>>

\* buf[HANDSHAKE_SIZE..total_read].to_vec()
Remaining(c2) == Drop(c2, HANDSHAKE_SIZE)

InitHandshake ==
    /\ \E total \in ClientTotals :
           /\ wire = ClientStream(1, total)
           /\ handshake = HandshakeNew(total)
    /\ script = <<>>
    /\ buf = <<>>
    /\ states = NoStates
    /\ max_chunk_size = DefaultChunkSize
    /\ pc = "read_c0c1"
    /\ emitted = <<>>
    /\ nreads = 0
    /\ lastTry = NoTry
    /\ HandlerNew
    /\ acks = <<>> /\ tracked = <<>> /\ windowSet = FALSE
    /\ ConnNew
    /\ NoCalls
    /\ audio_analyzer = AudioAnalyzerNew
    /\ stats = StreamStatsNew
    /\ diagnostics = set_profile(StreamDiagnosticsNew, "Twitch")
    /\ encoder_name = <<>>
    /\ clock = 0

\* one stream.read of read_exact into c0c1[offset..] that returns at most n
\* bytes; once c0c1 is full, S0 + S1 + S2 are written and flushed
ReadC0C1(n) ==
    /\ pc = "read_c0c1"
    /\ nreads < MaxHandshakeReads
    /\ wire # <<>>
    /\ \E k \in {Min(n, Min(1 + HANDSHAKE_SIZE - Len(handshake.c0c1), Len(wire)))} :
       \E c0c1 \in {handshake.c0c1 \o Take(wire, k)} :
           /\ wire' = Drop(wire, k)
           /\ IF Len(c0c1) < 1 + HANDSHAKE_SIZE
              THEN /\ handshake' = [handshake EXCEPT !.c0c1 = c0c1]
                   /\ pc' = pc
              ELSE /\ handshake' = [handshake EXCEPT !.c0c1 = c0c1, !.sent = Response(c0c1)]
                   /\ pc' = "read_c2"
    /\ nreads' = nreads + 1
    /\ UNCHANGED <<script, buf, states, max_chunk_size, emitted, lastTry, handlerVars, ackVars,
                   connVars, callVars, audio_analyzer, stats, diagnostics, encoder_name, clock>>

\* one stream.read into buf[total_read..] that returns at most n bytes; once
\* total_read reaches HANDSHAKE_SIZE the handshake returns the rest, and
\* handle_connection makes the ChunkReader and extends it with the rest
ReadC2(n) ==
    /\ pc = "read_c2"
    /\ nreads < MaxHandshakeReads
    /\ wire # <<>>
    /\ \E k \in {Min(n, Min(C2BufferSize - Len(handshake.c2), Len(wire)))} :
       \E c2 \in {handshake.c2 \o Take(wire, k)} :
           /\ wire' = Drop(wire, k)
           /\ IF Len(c2) < HANDSHAKE_SIZE
              THEN /\ handshake' = [handshake EXCEPT !.c2 = c2]
                   /\ pc' = pc
                   /\ buf' = buf
              ELSE /\ handshake' = [handshake EXCEPT !.c2 = c2, !.result = <<"Ok", Remaining(c2)>>]
                   /\ pc' = "select"
                   /\ buf' = Remaining(c2)
    /\ nreads' = nreads + 1
    /\ UNCHANGED <<script, states, max_chunk_size, emitted, lastTry, handlerVars, ackVars,
                   connVars, callVars, audio_analyzer, stats, diagnostics, encoder_name, clock>>

\* stream.read returns 0 during the handshake: Err, and handle_connection
\* returns
HandshakeClosed ==
    /\ pc \in {"read_c0c1", "read_c2"}
    /\ wire = <<>>
    /\ handshake' = [handshake EXCEPT !.result = <<"Err">>]
    /\ pc' = "closed"
    /\ UNCHANGED <<wire, script, buf, states, max_chunk_size, emitted, nreads, lastTry,
                   handlerVars, ackVars, connVars, callVars, audio_analyzer, stats, diagnostics,
                   encoder_name, clock>>

\* stream.read(&mut buf) of the session loop returns at most n bytes, which
\* chunk_reader.extend(&buf[..n]) appends. The bytes are not chunks here, so
\* what read_messages makes of them is left to the session's own
\* specification, which starts from a ChunkReader holding the rest.
SessionRead(n) ==
    /\ pc = "select"
    /\ nreads < MaxHandshakeReads
    /\ wire # <<>>
    /\ \E k \in {Min(n, Min(ReadBufferSize, Len(wire)))} :
           /\ buf' = buf \o Take(wire, k)
           /\ wire' = Drop(wire, k)
    /\ nreads' = nreads + 1
    /\ UNCHANGED <<script, states, max_chunk_size, pc, emitted, lastTry, handlerVars, ackVars,
                   connVars, callVars, monitorVars>>

\* stream.read of the session loop returns 0
SessionClosed ==
    /\ pc = "select"
    /\ wire = <<>>
    /\ pc' = "closed"
    /\ UNCHANGED <<wire, script, buf, states, max_chunk_size, emitted, nreads, lastTry,
                   handlerVars, ackVars, connVars, callVars, monitorVars>>

NextHandshake ==
    \/ \E n \in HandshakeReadSizes : ReadC0C1(n)
    \/ \E n \in HandshakeReadSizes : ReadC2(n)
    \/ HandshakeClosed
    \/ \E n \in HandshakeReadSizes : SessionRead(n)
    \/ SessionClosed

SpecHandshake == InitHandshake /\ [][NextHandshake]_vars

HandshakeOk == handshake.result # <<>> /\ handshake.result[1] = "Ok"

\* C25: S0 + S1 + S2 are sent only once the whole of C0 + C1 (1537 bytes) has
\* been read; exactly 1536 bytes are consumed as C2; and the bytes the client
\* sent after C2 reach the ChunkReader once each and in order, those read
\* with the tail of C2 as the rest the handshake returns, however the
\* client's bytes are split across socket reads.
C25_HandshakeBytes ==
    /\ handshake.sent # <<>> => handshake.c0c1 = ClientStream(1, 1 + HANDSHAKE_SIZE)
    /\ HandshakeOk =>
           /\ Take(handshake.c2, HANDSHAKE_SIZE)
                = ClientStream(2 + HANDSHAKE_SIZE, 1 + 2 * HANDSHAKE_SIZE)
           /\ handshake.result[2] = Drop(handshake.c2, HANDSHAKE_SIZE)
           /\ buf \o wire = ClientStream(2 + 2 * HANDSHAKE_SIZE, handshake.client)

\* C2 has come in two reads, the second filling buf with 4096 bytes of chunks
\* after it, and one more byte has reached the ChunkReader in a read of the
\* session loop
C25_Witness ==
    /\ HandshakeOk
    /\ Len(handshake.c2) = C2BufferSize
    /\ Len(handshake.result[2]) = 4096
    /\ handshake.client = 1 + 2 * HANDSHAKE_SIZE + 4097
    /\ wire = <<>>
    /\ buf = ClientStream(2 + 2 * HANDSHAKE_SIZE, handshake.client)

----------------------------------------------------------------------------
(* read_exp_golomb on the codes of given values *)

\* code values: small ones, those around 2^16, 2^31 and 2^32, the largest of
\* 32 leading zeros, 2^33 - 2, and the first of 33 leading zeros
CodeValues ==
    { U64(0, k) : k \in {0, 1, 2, 3, 6, 7, 254, 255, 65534, 65535} }
      \cup { U64(1, 0), U64(32767, 65534), U64(32767, 65535), U64(32768, 0),
             U64(65535, 65534), U64(65535, 65535), U64(65536, 0),
             U64(131071, 65534), U64(131071, 65535) }

\* the bits before the code in the data, and the bit the data is filled with
\* after it
BitsBefore == {<<>>, <<1, 0, 1>>, <<0, 0, 0, 0, 0, 0, 1>>}

FillBits == {0, 1}

\* floor(log2(x)) for x >= 1
RECURSIVE Log2(_)
Log2(x) == IF x <= 1 THEN 0 ELSE 1 + Log2(x \div 2)

\* floor(log2(w)) for a U64 above 0
U64Log2(w) == IF w.hi > 0 THEN 16 + Log2(w.hi) ELSE Log2(w.lo)

\* bit i of a U64, bit 0 the lowest
U64Bit(w, i) == IF i < 16 THEN (w.lo \div (2 ^ i)) % 2 ELSE (w.hi \div (2 ^ (i - 16))) % 2

\* the code of k: floor(log2(k + 1)) zero bits, then k + 1 in binary
ExpGolombCode(k) ==
    LET k1 == U64Add(k, U64(0, 1))
        zeros == U64Log2(k1)
    IN  [i \in 1..zeros |-> 0] \o [i \in 1..(zeros + 1) |-> U64Bit(k1, zeros + 1 - i)]

\* the bits as bytes, the last byte filled up with the bit fill
ByteOfBits(bits, fill, j) ==
    LET Bit(i) == IF 8 * (j - 1) + i <= Len(bits) THEN bits[8 * (j - 1) + i] ELSE fill
    IN  128 * Bit(1) + 64 * Bit(2) + 32 * Bit(3) + 16 * Bit(4)
          + 8 * Bit(5) + 4 * Bit(6) + 2 * Bit(7) + Bit(8)

BytesOfBits(bits, fill) ==
    [j \in 1..((Len(bits) + 7) \div 8) |-> ByteOfBits(bits, fill, j)]

InitGolomb ==
    /\ HandlerNew
    /\ acks = <<>> /\ tracked = <<>> /\ windowSet = FALSE
    /\ wire = <<>> /\ script = <<>> /\ buf = <<>> /\ states = NoStates
    /\ max_chunk_size = DefaultChunkSize /\ pc = "select" /\ emitted = <<>>
    /\ nreads = 0 /\ lastTry = NoTry
    /\ ConnNew
    /\ MonitorNew
    /\ \E k \in CodeValues, before \in BitsBefore, fill \in FillBits :
           input = [n |-> 0, k |-> k, before |-> before, fill |-> fill,
                    data |-> BytesOfBits(before \o ExpGolombCode(k), fill)]
    /\ output = <<>>

\* reader.read_exp_golomb() with the reader at the first bit of the code
ReadCode ==
    /\ input.n = 0
    /\ input' = [input EXCEPT !.n = 1]
    /\ output' = <<read_exp_golomb(input.data, Len(input.before))>>
    /\ UNCHANGED <<chunkVars, handlerVars, ackVars, connVars, monitorVars>>

NextGolomb == ReadCode

SpecGolomb == InitGolomb /\ [][NextGolomb]_vars

\* the leading zero bits of the code of input.k
CodeZeros == U64Log2(U64Add(input.k, U64(0, 1)))

\* C30: for every code value k >= 0 within the cap of 32 leading zeros, the
\* bit string of floor(log2(k + 1)) zero bits followed by k + 1 in binary is
\* decoded by read_exp_golomb to k, and exactly 2 * floor(log2(k + 1)) + 1
\* bits are consumed.
C30_ExpGolombRoundTrip ==
    (input.n = 1 /\ CodeZeros <= 32) =>
        /\ output[1].v = input.k
        /\ output[1].p = Len(input.before) + 2 * CodeZeros + 1

\* the largest value of 32 leading zeros, 2^33 - 2, has been decoded from a
\* code that starts within a byte
C30_Witness ==
    /\ input.n = 1
    /\ input.k = U64(131071, 65534)
    /\ CodeZeros = 32
    /\ input.before = <<1, 0, 1>>
    /\ output[1] = Read(U64(131071, 65534), 68)

====
